---- MODULE Spec2Model ----
(***************************************************************************)
(* A model of transcript-rag: the ingestion pipeline (srt.ts, ingest.ts,   *)
(* db.ts) and the query pipeline (search.ts).  Every group of variables    *)
(* belongs to one component; each specification below drives one component *)
(* and leaves the variables of the others at their initial values.         *)
(*                                                                         *)
(* Conventions.  Array positions keep the source's 0-based numbering; a    *)
(* TLA+ sequence s holds the element of position i at s[i + 1].  A text is *)
(* a sequence of one-character strings.  Timestamps are whole seconds.     *)
(***************************************************************************)
EXTENDS Integers, Sequences, FiniteSets, TLC

VARIABLES
    \* aggregateEntries (srt.ts)
    entries,        \* the argument: a sequence of SrtEntry
    startIndex,     \* the cursor of the outer loop
    chunkIndex,     \* the running chunk counter
    chunks,         \* the chunks emitted so far
    aggPc,          \* "loop" while the outer loop runs, "done" after the return
    advances,       \* how many times the outer loop moved the cursor
    visited         \* the positions of the entries the slices held so far

aggVars == <<entries, startIndex, chunkIndex, chunks, aggPc, advances, visited>>

VARIABLES
    \* rrfCombine (search.ts)
    vectorMatches,  \* the first argument: the vector search's list
    bm25Matches,    \* the second argument: the lexical search's list
    scores,         \* the Map of id -> {score, chunk}, in insertion order
    combined,       \* the returned list
    rrfPc           \* "idle", "vector", "bm25", "sort", "done"

rrfVars == <<vectorMatches, bm25Matches, scores, combined, rrfPc>>

VARIABLES
    \* rerankChunks (search.ts)
    candidates,     \* the argument `chunks`
    response,       \* what generateText did: it rejected, or resolved with a text
    rerankResult,   \* how the call ended: the returned list, or an error thrown
    rerankPc        \* "idle", "await" (inside generateText), "done"

rerankVars == <<candidates, response, rerankResult, rerankPc>>

VARIABLES
    \* the transcripts directory and the database (db.ts)
    files,          \* lesson -> [mtime, content] of its .srt file
    userVersion,    \* PRAGMA user_version
    chunksTable,    \* table chunks: rows [id, lesson_name, chunk_index]
    chunksFts,      \* table chunks_fts: rows [chunk_id, lesson_name]
    vecChunks,      \* table vec_chunks: the chunk_id of every row
    processedFiles  \* table processed_files: rows [filename, mtime, size]

dbVars == <<files, userVersion, chunksTable, chunksFts, vecChunks, processedFiles>>

VARIABLES
    \* runIngest (ingest.ts)
    pc,             \* the position of the run; "idle" when no process runs
    force,          \* options.force
    fileIdx,        \* the position of the for loop in srtFiles
    stats,          \* [mtime, size] read by stat
    processed,      \* the result of getProcessedInfo: a set with 0 or 1 record
    runChunks,      \* chunks, as aggregateEntries returned them
    embeddings,     \* the length of every embedding embedTexts returned
    insertPos,      \* the position of the insert loop
    chunkId,        \* the rowid insertChunk returned
    ingested,       \* the counter of ingested files
    skipped,        \* the counter of skipped files
    lastRun,        \* how the last run ended: "none", "completed", "failed", "killed"
    runCount        \* the number of ingest processes started so far

runVars == <<pc, force, fileIdx, stats, processed, runChunks, embeddings, insertPos,
             chunkId, ingested, skipped, lastRun, runCount>>

VARIABLES
    \* expandNeighbors (search.ts)
    selection,      \* chunks: the selection handed in
    expanded,       \* the list returned
    expandPc        \* "idle", "done"

expandVars == <<selection, expanded, expandPc>>

VARIABLES
    \* suggestLessons (cli.ts)
    typed,          \* input: the lesson name as typed
    available,      \* the known lesson names
    suggestions,    \* the names returned
    suggestPc       \* "idle", "done"

suggestVars == <<typed, available, suggestions, suggestPc>>

VARIABLES
    \* runCli (cli.ts) and answerQuestion (search.ts)
    cliPc,          \* the position of the invocation; "idle" before and "exited" after
    opts,           \* the flags of the command line: ingest, ask, listLessons, apiKey
    storedLessons,  \* getAvailableLessons(): the lesson names of the chunks table
    topK,           \* const topK: [nan, n]
    lessons,        \* const lessons: [defined, names]
    stderr,         \* the lines written with console.error
    exitCode,       \* -1 while running, then 0 or the argument of process.exit
    calls,          \* the service and search calls made so far: [fn, lessons]
    answerTopK,     \* options.topK of answerQuestion
    fused,          \* combined: the ids rrfCombine returned
    reranked,       \* the list rerankChunks returned
    topKChunks      \* const topK of answerQuestion: the selection handed on

cliVars == <<cliPc, opts, storedLessons, topK, lessons, stderr, exitCode, calls,
             answerTopK, fused, reranked, topKChunks>>

VARIABLES
    \* queryVectorSimilar (db.ts)
    corpus,         \* vec_chunks joined with chunks: [id, lessonName, distance], nearest first
    queryLength,    \* embedding.length
    limit,          \* the limit argument
    lessonNames,    \* the lessonNames argument: [defined, names]
    vecResult,      \* [kind, rows]: the rows returned, or the error thrown
    vecPc           \* "idle", "done"

vecVars == <<corpus, queryLength, limit, lessonNames, vecResult, vecPc>>

VARIABLES
    \* parseSrt (srt.ts)
    content,        \* the file content: the sequence of its lines
    parseResult,    \* [kind, entries]: the entries returned
    parsePc         \* "idle", "done"

parseVars == <<content, parseResult, parsePc>>

VARIABLES
    \* normalizeEntries
    subtitles,     \* the argument `entries`
    normResult,    \* the value returned
    normPc         \* "idle" | "done"

normVars == <<subtitles, normResult, normPc>>

VARIABLES
    \* runIngest: from the content of a file to its chunks
    fileContent,         \* the lines of `content`
    fileEntries,         \* `entries`
    normalizedEntries,   \* `normalizedEntries`
    fileChunks,          \* `chunks`
    chunkPc              \* "idle" | "parsed" | "chunked"

chunkVars == <<fileContent, fileEntries, normalizedEntries, fileChunks, chunkPc>>

VARIABLES
    \* initDb (db.ts): the module state of one process
    initialized,   \* the flag `initialized`
    dbOpen,        \* `db` is not null
    initCalls,     \* calls of initDb that returned in this process
    currentVersion,\* `currentVersion` of the last call that read it
    dropped,       \* the rows the DROP TABLE statements of that call removed
    schemaPc       \* "idle" (no process) | "running"

schemaVars == <<initialized, dbOpen, initCalls, currentVersion, dropped, schemaPc>>

VARIABLES
    \* answerQuestion (search.ts): from the retrieval to the context
    ctxLessons,    \* options.lessons
    ctxCombined,   \* `combined`
    ctxTopK,       \* `topK`, the selection
    ctxExpanded,   \* `expanded`, the context handed to generateText
    ctxPc          \* "idle" | "combined" | "selected" | "expanded"

ctxVars == <<ctxLessons, ctxCombined, ctxTopK, ctxExpanded, ctxPc>>

vars == <<aggVars, rrfVars, rerankVars, dbVars, runVars, expandVars, suggestVars, cliVars, vecVars, parseVars, normVars, chunkVars, schemaVars, ctxVars>>

\* What each component leaves alone.
notAgg == <<rrfVars, rerankVars, dbVars, runVars, expandVars, suggestVars, cliVars, vecVars, parseVars, normVars, chunkVars, schemaVars, ctxVars>>
notRrf == <<aggVars, rerankVars, dbVars, runVars, expandVars, suggestVars, cliVars, vecVars, parseVars, normVars, chunkVars, schemaVars, ctxVars>>
notRerank == <<aggVars, rrfVars, dbVars, runVars, expandVars, suggestVars, cliVars, vecVars, parseVars, normVars, chunkVars, schemaVars, ctxVars>>
notIngest == <<aggVars, rrfVars, rerankVars, expandVars, suggestVars, cliVars, vecVars, parseVars, normVars, chunkVars, schemaVars, ctxVars>>
notExpand == <<aggVars, rrfVars, rerankVars, dbVars, runVars, suggestVars, cliVars, vecVars, parseVars, normVars, chunkVars, schemaVars, ctxVars>>
notSuggest == <<aggVars, rrfVars, rerankVars, dbVars, runVars, expandVars, cliVars, vecVars, parseVars, normVars, chunkVars, schemaVars, ctxVars>>
notCli == <<aggVars, rrfVars, rerankVars, dbVars, runVars, expandVars, suggestVars, vecVars, parseVars, normVars, chunkVars, schemaVars, ctxVars>>
notVec == <<aggVars, rrfVars, rerankVars, dbVars, runVars, expandVars, suggestVars, cliVars, parseVars, normVars, chunkVars, schemaVars, ctxVars>>
notParse == <<aggVars, rrfVars, rerankVars, dbVars, runVars, expandVars, suggestVars, cliVars, vecVars, normVars, chunkVars, schemaVars, ctxVars>>
notNorm == <<aggVars, rrfVars, rerankVars, dbVars, runVars, expandVars, suggestVars, cliVars, vecVars, parseVars, chunkVars, schemaVars, ctxVars>>
notChunk == <<aggVars, rrfVars, rerankVars, dbVars, runVars, expandVars, suggestVars, cliVars, vecVars, parseVars, normVars, schemaVars, ctxVars>>
notSchema == <<aggVars, rrfVars, rerankVars, dbVars, runVars, expandVars, suggestVars, cliVars, vecVars, parseVars, normVars, chunkVars, ctxVars>>
notSchemaDb == <<aggVars, rrfVars, rerankVars, runVars, expandVars, suggestVars, cliVars, vecVars, parseVars, normVars, chunkVars, ctxVars>>
notCtx == <<aggVars, rrfVars, rerankVars, dbVars, runVars, expandVars, suggestVars, cliVars, vecVars, parseVars, normVars, chunkVars, schemaVars>>
notCtxDb == <<aggVars, rrfVars, rerankVars, runVars, expandVars, suggestVars, cliVars, vecVars, parseVars, normVars, chunkVars, schemaVars>>

----------------------------------------------------------------------------
\* Bounds of the model.

\* Longest entry sequence handed to aggregateEntries.
MaxEntries == 3

\* Longest result list of one search, and the number of chunk ids searched.
MaxMatches == 3
NumChunkIds == 4

\* Most scores in the array of a scoring response.
MaxScores == 4

\* The largest rowid the chunks table hands out, and the latest modification time.
MaxRowId == 4
MaxMtime == 2

\* Most ingest processes started one after the other.
MaxRuns == 2

\* Most chunks in the selection handed to expandNeighbors.
MaxSelection == 2

\* Longest value of --top-k and of --lessons, most fused candidates.
MaxTopKLen == 3
MaxFilterLen == 3
MaxFused == 32

\* Most rows of the vector table, and the largest limit of a vector query.
MaxCorpus == 11
MaxLimit == 2

\* Most lines of a file content, and most blocks of a content made of blocks.
MaxLines == 5
MaxBlocks == 3

\* Longest typed lesson name, and most known lessons.
MaxSubtitles == 4

\* The calls of initDb in one process.
MaxInitCalls == 2

\* The chunks of the store a question is asked of, and options.topK.
MaxStored == 3
MaxContextTopK == 2

MaxNameLen == 2
MaxKnown == 6

----------------------------------------------------------------------------
\* Texts.

Space == " "

RECURSIVE TrimStart(_)
\* String.prototype.trim, the leading half: drop leading white space.
TrimStart(s) ==
    IF s # <<>> /\ Head(s) = Space THEN TrimStart(Tail(s)) ELSE s

RECURSIVE TrimEnd(_)
\* String.prototype.trim, the trailing half: drop trailing white space.
TrimEnd(s) ==
    IF s # <<>> /\ s[Len(s)] = Space THEN TrimEnd(SubSeq(s, 1, Len(s) - 1)) ELSE s

\* String.prototype.trim.
Trim(s) == TrimEnd(TrimStart(s))

RECURSIVE JoinSpace(_)
\* Array.prototype.join(" ") over a sequence of texts.
JoinSpace(texts) ==
    IF texts = <<>> THEN <<>>
    ELSE IF Len(texts) = 1 THEN texts[1]
    ELSE texts[1] \o <<Space>> \o JoinSpace(Tail(texts))

----------------------------------------------------------------------------
\* normalizeText and normalizeEntries (srt.ts).

Letters == {"a", "b", "A", "B"}

\* toLowerCase, one character.
LowerChar(c) ==
    IF c = "A" THEN "a" ELSE IF c = "B" THEN "b" ELSE IF c = "L" THEN "l" ELSE c

\* String.prototype.toLowerCase.
ToLowerCase(s) == [k \in 1..Len(s) |-> LowerChar(s[k])]

\* The class [A-Za-z0-9_ -] of the speaker label.
IsLabelChar(c) == c \in Letters \cup {"0", "1", "_", " ", "-"}

\* The first position from p on that holds c, 0 when there is none.
IndexFrom(s, c, p) ==
    IF \E k \in p..Len(s) : s[k] = c
    THEN CHOOSE k \in p..Len(s) : s[k] = c /\ \A m \in p..(k - 1) : s[m] # c
    ELSE 0

RECURSIVE StripCuesFrom(_, _)
\* text.replace(/\[[^\]]+?\]/g, " ") from position p on: a "[" followed by at
\* least one character that is not "]" and then "]" becomes one space.
StripCuesFrom(s, p) ==
    IF p > Len(s) THEN <<>>
    ELSE LET q == IndexFrom(s, "]", p + 1)
         IN  IF s[p] = "[" /\ q >= p + 2
             THEN <<Space>> \o StripCuesFrom(s, q + 1)
             ELSE <<s[p]>> \o StripCuesFrom(s, p + 1)

\* stripBracketedCues.
StripBracketedCues(s) == StripCuesFrom(s, 1)

\* The length of the prefix matched by >>\s* at the start of s, 0 when none.
ChevronPrefix(s) ==
    IF Len(s) >= 2 /\ s[1] = ">" /\ s[2] = ">"
    THEN 2 + (Len(SubSeq(s, 3, Len(s))) - Len(TrimStart(SubSeq(s, 3, Len(s)))))
    ELSE 0

\* The length of the prefix matched by [A-Za-z][A-Za-z0-9_ -]{0,30}:\s+ at the
\* start of s, 0 when none.
LabelPrefix(s) ==
    LET colon == IndexFrom(s, ":", 1)
        rest  == SubSeq(s, colon + 1, Len(s))
    IN  IF /\ Len(s) >= 1 /\ s[1] \in Letters
           /\ colon >= 2 /\ colon - 2 <= 30
           /\ \A k \in 2..(colon - 1) : IsLabelChar(s[k])
           /\ rest # <<>> /\ rest[1] = Space
        THEN colon + (Len(rest) - Len(TrimStart(rest)))
        ELSE 0

\* stripSpeakerPrefix: text.replace(/^\s*(>>\s*|[A-Za-z][A-Za-z0-9_ -]{0,30}:\s+)/, "").
StripSpeakerPrefix(s) ==
    LET body == TrimStart(s)
        n == IF ChevronPrefix(body) # 0 THEN ChevronPrefix(body) ELSE LabelPrefix(body)
    IN  IF n = 0 THEN s ELSE SubSeq(body, n + 1, Len(body))

RECURSIVE CollapseSpaces(_)
\* cleaned.replace(/\s+/g, " ").
CollapseSpaces(s) ==
    IF s = <<>> THEN <<>>
    ELSE IF Head(s) = Space
    THEN <<Space>> \o CollapseSpaces(TrimStart(s))
    ELSE <<Head(s)>> \o CollapseSpaces(Tail(s))

\* normalizeText.
NormalizeText(s) == Trim(CollapseSpaces(StripSpeakerPrefix(StripBracketedCues(s))))

RECURSIVE NormalizeFromNoRepeat(_, _, _, _)
\* The mutant of NormalizeFrom: lastText is the first text kept and is never
\* replaced, so a text is also dropped when it repeats behind another one.
NormalizeFromNoRepeat(es, index, lastText, normalized) ==
    IF index >= Len(es) THEN normalized
    ELSE LET entry   == es[index + 1]
             cleaned == NormalizeText(entry.text)
         IN  IF cleaned = <<>> THEN NormalizeFromNoRepeat(es, index + 1, lastText, normalized)
             ELSE IF ToLowerCase(cleaned) = lastText
             THEN NormalizeFromNoRepeat(es, index + 1, lastText, normalized)
             ELSE NormalizeFromNoRepeat(es, index + 1,
                                        IF lastText = <<>> THEN ToLowerCase(cleaned) ELSE lastText,
                                        Append(normalized, [entry EXCEPT !.text = cleaned]))

RECURSIVE NormalizeFrom(_, _, _, _)
\* The loop of normalizeEntries from position index on.
NormalizeFrom(es, index, lastText, normalized) ==
    IF index >= Len(es) THEN normalized
    ELSE LET entry   == es[index + 1]
             cleaned == NormalizeText(entry.text)
         IN  IF cleaned = <<>> THEN NormalizeFrom(es, index + 1, lastText, normalized)
             ELSE IF ToLowerCase(cleaned) = lastText
             THEN NormalizeFrom(es, index + 1, lastText, normalized)
             ELSE NormalizeFrom(es, index + 1, ToLowerCase(cleaned),
                                Append(normalized, [entry EXCEPT !.text = cleaned]))

\* normalizeEntries.
NormalizeEntries(es) == NormalizeFrom(es, 0, <<>>, <<>>)

----------------------------------------------------------------------------
\* parseSrt (srt.ts).  A file content is the sequence of its blocks (the parts
\* between blank lines), a block the sequence of its non-empty lines.  A line
\* is [time, startSeconds, endSeconds, text]: `time` tells whether
\* TIMECODE_REGEX matches it, and then the two timestamps hold the seconds
\* timestampToSeconds gives for the matched groups.

TimeLine(from, to) ==
    [time |-> TRUE, startSeconds |-> from, endSeconds |-> to, text |-> <<"t">>]

TextLine(text) ==
    [time |-> FALSE, startSeconds |-> 0, endSeconds |-> 0, text |-> text]

\* The mutant of TextLinesFrom: the text starts behind the timecode line.
TextLinesBehindTimecode(lines) == IF lines[1].time THEN 1 ELSE 2

\* The first position of the text lines: lines.slice(match === lines[0] ? 1 : 2).
\* match is the RegExpMatchArray and lines[0] a string, so they are never
\* identical and the slice starts at 2.
TextLinesFrom(lines) == 2

\* The body of the loop of parseSrt on one block: the entries it pushes.
ParseBlock(lines) ==
    IF Len(lines) < 2 THEN <<>>
    ELSE LET timeLine == IF lines[1].time THEN lines[1] ELSE lines[2]
             from == TextLinesFrom(lines)
             text == Trim(JoinSpace([k \in 1..(Len(lines) - from) |-> lines[from + k].text]))
         IN  IF ~timeLine.time THEN <<>>
             ELSE IF text = <<>> THEN <<>>
             ELSE <<[startSeconds |-> timeLine.startSeconds,
                     endSeconds   |-> timeLine.endSeconds,
                     text         |-> text]>>

RECURSIVE ParseFromUntilBad(_, _)
\* The mutant of ParseFrom: the first block without an entry ends the parse.
ParseFromUntilBad(blocks, index) ==
    IF index >= Len(blocks) THEN <<>>
    ELSE IF ParseBlock(blocks[index + 1]) = <<>> THEN <<>>
    ELSE ParseBlock(blocks[index + 1]) \o ParseFromUntilBad(blocks, index + 1)

RECURSIVE ParseFrom(_, _)
ParseFrom(blocks, index) ==
    IF index >= Len(blocks) THEN <<>>
    ELSE ParseBlock(blocks[index + 1]) \o ParseFrom(blocks, index + 1)

\* parseSrt(content).
ParseSrt(blocks) == ParseFrom(blocks, 0)

----------------------------------------------------------------------------
\* aggregateEntries (srt.ts).

\* windowSeconds, the default and the value runIngest passes.
WindowSeconds == 45

\* overlapSeconds, the default and the value runIngest passes.
OverlapSeconds == 10

Min(a, b) == IF a <= b THEN a ELSE b

\* The mutant of InWindow: an exclusive boundary.
InWindowExclusive(entry, windowStart, windowSeconds) ==
    entry.endSeconds - windowStart < windowSeconds

\* The inner loop's test on one entry: entries[endIndex].endSeconds - windowStart <= windowSeconds.
InWindow(entry, windowStart, windowSeconds) ==
    entry.endSeconds - windowStart <= windowSeconds

RECURSIVE ExtendEnd(_, _, _, _)
\* The inner while loop that extends endIndex over the entries inside the window.
ExtendEnd(es, windowStart, endIndex, windowSeconds) ==
    IF endIndex < Len(es) /\ InWindow(es[endIndex + 1], windowStart, windowSeconds)
    THEN ExtendEnd(es, windowStart, endIndex + 1, windowSeconds)
    ELSE endIndex

\* endIndex after the inner loop and the forced inclusion of one entry.
WindowEnd(es, start, windowSeconds) ==
    LET endIndex == ExtendEnd(es, es[start + 1].startSeconds, start, windowSeconds)
    IN  IF endIndex = start THEN Min(start + 1, Len(es)) ELSE endIndex

RECURSIVE SkipOverlap(_, _, _)
\* The while loop that moves nextIndex past the entries starting before overlapStart.
SkipOverlap(es, nextIndex, overlapStart) ==
    IF nextIndex < Len(es) /\ es[nextIndex + 1].startSeconds < overlapStart
    THEN SkipOverlap(es, nextIndex + 1, overlapStart)
    ELSE nextIndex

\* The mutant of NextStart: the cursor restarts at the first entry inside the
\* overlap, with no forced step.
NextStartNoProgress(es, start, endIndex, overlapSeconds) ==
    SkipOverlap(es, start, es[endIndex].endSeconds - overlapSeconds)

\* The cursor of the next iteration: nextIndex after the overlap loop and the
\* guard that forces at least one entry of progress.
NextStart(es, start, endIndex, overlapSeconds) ==
    LET overlapStart == es[endIndex].endSeconds - overlapSeconds
        nextIndex == SkipOverlap(es, start + 1, overlapStart)
    IN  IF nextIndex <= start THEN start + 1 ELSE nextIndex

\* The text of a slice: slice.map(entry => entry.text).join(" ").trim().
SliceText(es, start, endIndex) ==
    Trim(JoinSpace([k \in 1..(endIndex - start) |-> es[start + k].text]))

\* The chunk pushed for the slice [start, endIndex) under the counter index.
MakeChunk(es, start, endIndex, index) ==
    [chunkIndex   |-> index,
     startSeconds |-> es[start + 1].startSeconds,
     endSeconds   |-> es[endIndex].endSeconds,
     text         |-> SliceText(es, start, endIndex)]

\* The mutant of CounterAfter: the counter moves on every iteration.
CounterAlways(index, text) == index + 1

\* The counter after an iteration: incremented only inside `if (text)`.
CounterAfter(index, text) == IF text # <<>> THEN index + 1 ELSE index

\* One iteration of the outer loop on the loop state st.
AggIter(es, st, windowSeconds, overlapSeconds) ==
    LET endIndex == WindowEnd(es, st.startIndex, windowSeconds)
        text     == SliceText(es, st.startIndex, endIndex)
    IN  [startIndex |-> NextStart(es, st.startIndex, endIndex, overlapSeconds),
         chunkIndex |-> CounterAfter(st.chunkIndex, text),
         chunks     |-> IF text # <<>>
                        THEN Append(st.chunks,
                                    MakeChunk(es, st.startIndex, endIndex, st.chunkIndex))
                        ELSE st.chunks]

RECURSIVE AggLoop(_, _, _, _)
\* The outer while loop, run to its end.
AggLoop(es, st, windowSeconds, overlapSeconds) ==
    IF st.startIndex < Len(es)
    THEN AggLoop(es, AggIter(es, st, windowSeconds, overlapSeconds),
                 windowSeconds, overlapSeconds)
    ELSE st.chunks

\* aggregateEntries(entries, windowSeconds, overlapSeconds).
AggregateEntries(es, windowSeconds, overlapSeconds) ==
    IF Len(es) = 0 THEN <<>>
    ELSE AggLoop(es, [startIndex |-> 0, chunkIndex |-> 0, chunks |-> <<>>],
                 windowSeconds, overlapSeconds)

----------------------------------------------------------------------------
\* The inputs of aggregateEntries: entries with zero, negative, overlapping and
\* longer-than-window durations, with empty and non-empty texts.

StartTimes == {0, 5, 35, 50}
EndTimes == {40, 50, 60}
EntryTexts == {<<>>, <<"a">>}

SrtEntry == [startSeconds : StartTimes, endSeconds : EndTimes, text : EntryTexts]

SeqUpTo(S, n) == UNION {[1..k -> S] : k \in 0..n}

\* Before the call: nothing has been passed in yet.
AggIdle ==
    /\ entries = <<>>
    /\ startIndex = 0
    /\ chunkIndex = 0
    /\ chunks = <<>>
    /\ aggPc = "idle"
    /\ advances = 0
    /\ visited = {}

\* The call aggregateEntries(es, 45, 10): the locals are initialised.
AggCall ==
    /\ aggPc = "idle"
    /\ \E es \in SeqUpTo(SrtEntry, MaxEntries) : entries' = es
    /\ startIndex' = 0
    /\ chunkIndex' = 0
    /\ chunks' = <<>>
    /\ aggPc' = "loop"
    /\ advances' = 0
    /\ visited' = {}
    /\ UNCHANGED notAgg

\* `if (entries.length === 0) return []` and the exit of the outer loop.
AggReturn ==
    /\ aggPc = "loop"
    /\ ~(startIndex < Len(entries))
    /\ aggPc' = "done"
    /\ UNCHANGED <<entries, startIndex, chunkIndex, chunks, advances, visited>>
    /\ UNCHANGED notAgg

\* One iteration of `while (startIndex < entries.length)`.
AggStep ==
    /\ aggPc = "loop"
    /\ startIndex < Len(entries)
    /\ LET st == AggIter(entries,
                         [startIndex |-> startIndex, chunkIndex |-> chunkIndex,
                          chunks |-> chunks],
                         WindowSeconds, OverlapSeconds)
       IN  /\ startIndex' = st.startIndex
           /\ chunkIndex' = st.chunkIndex
           /\ chunks' = st.chunks
    /\ advances' = advances + 1
    /\ visited' = visited \cup (startIndex..(WindowEnd(entries, startIndex, WindowSeconds) - 1))
    /\ UNCHANGED <<entries, aggPc>>
    /\ UNCHANGED notAgg

----------------------------------------------------------------------------
\* Claims about aggregateEntries.

\* The entries of positions from..(to - 1).
EntriesOf(es, from, to) == [k \in 1..(to - from) |-> es[from + k]]

\* C5: for every entry sequence (zero, negative, overlapping and
\* longer-than-window durations included) aggregateEntries terminates, every
\* iteration of its outer loop moves the cursor forward by at least one entry,
\* and it performs at most entries.length cursor advances.  Termination is
\* stated as: every iteration moves the cursor forward, the iterations are
\* bounded by the length, and the loop returns once the cursor is past the end.
C5_TerminatesWithinLength ==
    [][/\ advances' # advances =>
            /\ advances' = advances + 1
            /\ startIndex' >= startIndex + 1
       /\ advances' <= Len(entries')
       /\ (aggPc = "loop" /\ startIndex >= Len(entries)) => aggPc' = "done"]_vars

\* C5 witness: a finished run over a full-length input with a negative, a zero
\* and a longer-than-window duration that used every allowed advance.
C5_Witness ==
    /\ aggPc = "done"
    /\ Len(entries) = 3
    /\ advances = Len(entries)
    /\ \E k \in 1..Len(entries) : entries[k].endSeconds < entries[k].startSeconds
    /\ \E k \in 1..Len(entries) : entries[k].endSeconds = entries[k].startSeconds
    /\ \E k \in 1..Len(entries) :
          entries[k].endSeconds - entries[k].startSeconds > WindowSeconds

\* C6: the k-th emitted chunk carries chunkIndex k (counting from 0), so the
\* emitted indices are exactly 0..n-1 without gap or repetition, also after
\* iterations that emit nothing because the joined text is empty.
C6_IndexIsPosition ==
    /\ \A k \in 1..Len(chunks) : chunks[k].chunkIndex = k - 1
    /\ chunkIndex = Len(chunks)

\* C6 witness: a finished run that emitted two chunks and had an iteration
\* with empty joined text before the last emitted chunk.
C6_Witness ==
    /\ aggPc = "done"
    /\ Len(chunks) = 2
    /\ advances = 3
    /\ entries[1].text = <<>>
    /\ entries[1].endSeconds - entries[1].startSeconds > WindowSeconds

\* The end (exclusive) of the maximal run of consecutive entries from s whose
\* end lies at most WindowSeconds after entries[s].startSeconds.
MaximalRunEnd(es, s) ==
    CHOOSE e \in s..Len(es) :
        /\ \A j \in (s + 1)..e : es[j].endSeconds - es[s + 1].startSeconds <= WindowSeconds
        /\ \/ e = Len(es)
           \/ es[e + 1].endSeconds - es[s + 1].startSeconds > WindowSeconds

\* The entries the claim puts in the chunk built at cursor s.
ClaimedSlice(es, s) ==
    LET e == MaximalRunEnd(es, s)
    IN  IF e = s THEN EntriesOf(es, s, s + 1) ELSE EntriesOf(es, s, e)

\* The spec's scenario: entries ending at 40s, 50s and 60s, the first starting at 0.
Scenario405060 ==
    /\ Len(entries) = 3
    /\ entries[1].startSeconds = 0
    /\ entries[1].endSeconds = 40 /\ entries[2].endSeconds = 50
    /\ entries[3].endSeconds = 60
    /\ \A k \in 1..3 : entries[k].text # <<>>

\* C7: the chunk built at cursor s holds exactly the maximal run of consecutive
\* entries from s with end - windowStart <= W (inclusive), or the single entry
\* at s when that run is empty; in the 40s/50s/60s scenario the first chunk
\* holds only the 40s entry.
C7_MaximalInclusiveWindow ==
    [][/\ advances' # advances =>
            LET slice == ClaimedSlice(entries, startIndex)
                text  == Trim(JoinSpace([k \in 1..Len(slice) |-> slice[k].text]))
            IN  IF text = <<>> THEN chunks' = chunks
                ELSE chunks' = Append(chunks,
                        [chunkIndex   |-> chunkIndex,
                         startSeconds |-> slice[1].startSeconds,
                         endSeconds   |-> slice[Len(slice)].endSeconds,
                         text         |-> text])
       /\ (Scenario405060' /\ advances' >= 1) =>
            /\ chunks'[1].startSeconds = 0 /\ chunks'[1].endSeconds = 40
            /\ chunks'[1].text = entries'[1].text]_vars

\* C7 witness: the scenario after the first chunk was built.
C7_Witness ==
    /\ Scenario405060
    /\ aggPc = "done"
    /\ Len(chunks) >= 1

\* C24: every entry passed to aggregateEntries is part of the slice
\* [startIndex, endIndex) of at least one iteration: the cursor never moves
\* past an entry that no window has held.
C24_EveryEntryVisited ==
    aggPc = "done" => \A k \in 0..(Len(entries) - 1) : k \in visited

----------------------------------------------------------------------------
\* rrfCombine (search.ts).  A score is an exact fraction [num, den], den > 0.

RRF_K == 60

\* The candidates: a RetrievedChunk is identified by its id; `via` tells which
\* search returned the object (the vector rows carry a distance, the lexical
\* rows a bm25 value).
ChunkIds == 1..NumChunkIds

RetrievedVia(via) == [id : ChunkIds, via : {via}]

\* The result lists of one search: no chunk id twice (one row per chunk).
MatchLists(via) ==
    {l \in SeqUpTo(RetrievedVia(via), MaxMatches) :
        \A i, j \in 1..Len(l) : l[i].id = l[j].id => i = j}

FracAdd(a, b) == [num |-> a.num * b.den + b.num * a.den, den |-> a.den * b.den]
FracLess(a, b) == a.num * b.den < b.num * a.den
FracEq(a, b) == a.num * b.den = b.num * a.den

\* The mutant of RankOf: the 0-based position taken as the rank.
RankZeroBased(index) == index

\* const rank = index + 1.
RankOf(index) == index + 1

\* const rrfScore = 1 / (RRF_K + rank).
RrfScore(index) == [num |-> 1, den |-> RRF_K + RankOf(index)]

\* The position of id's entry in the Map, 0 when it has none.
ScoreSlot(map, id) ==
    IF \E k \in 1..Len(map) : map[k].id = id
    THEN CHOOSE k \in 1..Len(map) : map[k].id = id
    ELSE 0

\* The body of the forEach callback: add to the existing entry or set a new one.
AddOne(map, chunk, index) ==
    LET k == ScoreSlot(map, chunk.id)
    IN  IF k # 0
        THEN [map EXCEPT ![k].score = FracAdd(@, RrfScore(index))]
        ELSE Append(map, [id |-> chunk.id, score |-> RrfScore(index), chunk |-> chunk])

RECURSIVE AddFrom(_, _, _)
\* list.forEach from position index on.
AddFrom(map, list, index) ==
    IF index < Len(list)
    THEN AddFrom(AddOne(map, list[index + 1], index), list, index + 1)
    ELSE map

\* addList(list).
AddList(map, list) == AddFrom(map, list, 0)

\* The mutant of SortsAfter: ties are placed before the entries seen earlier.
SortsAfterOrTie(a, b) == ~FracLess(a.score, b.score)

\* The comparator (a, b) => b.score - a.score is positive: a sorts after b.
SortsAfter(a, b) == FracLess(a.score, b.score)

RECURSIVE InsertSorted(_, _)
\* Place x behind every element that does not sort after it.
InsertSorted(sorted, x) ==
    IF sorted = <<>> THEN <<x>>
    ELSE IF SortsAfter(Head(sorted), x) THEN <<x>> \o sorted
    ELSE <<Head(sorted)>> \o InsertSorted(Tail(sorted), x)

RECURSIVE SortFrom(_, _, _)
SortFrom(sorted, list, index) ==
    IF index < Len(list)
    THEN SortFrom(InsertSorted(sorted, list[index + 1]), list, index + 1)
    ELSE sorted

\* Array.prototype.sort with the comparator of rrfCombine: a stable sort.
SortByScore(list) == SortFrom(<<>>, list, 0)

RrfIdle ==
    /\ vectorMatches = <<>>
    /\ bm25Matches = <<>>
    /\ scores = <<>>
    /\ combined = <<>>
    /\ rrfPc = "idle"

\* The call rrfCombine(vectorMatches, bm25Matches): scores = new Map().
RrfCall ==
    /\ rrfPc = "idle"
    /\ \E v \in MatchLists("vector") : vectorMatches' = v
    /\ \E b \in MatchLists("bm25") : bm25Matches' = b
    /\ scores' = <<>>
    /\ rrfPc' = "vector"
    /\ UNCHANGED combined
    /\ UNCHANGED notRrf

\* addList(vectorMatches).
RrfAddVector ==
    /\ rrfPc = "vector"
    /\ scores' = AddList(scores, vectorMatches)
    /\ rrfPc' = "bm25"
    /\ UNCHANGED <<vectorMatches, bm25Matches, combined>>
    /\ UNCHANGED notRrf

\* addList(bm25Matches).
RrfAddBm25 ==
    /\ rrfPc = "bm25"
    /\ scores' = AddList(scores, bm25Matches)
    /\ rrfPc' = "sort"
    /\ UNCHANGED <<vectorMatches, bm25Matches, combined>>
    /\ UNCHANGED notRrf

\* return Array.from(scores.values()).sort(...).map(entry => entry.chunk).
RrfReturn ==
    /\ rrfPc = "sort"
    /\ combined' = LET sorted == SortByScore(scores)
                   IN  [k \in 1..Len(sorted) |-> sorted[k].chunk]
    /\ rrfPc' = "done"
    /\ UNCHANGED <<vectorMatches, bm25Matches, scores>>
    /\ UNCHANGED notRrf

----------------------------------------------------------------------------
\* Claims about rrfCombine.

\* The 1-based rank of id in list, 0 when the list does not hold it.
RankIn(list, id) ==
    IF \E k \in 1..Len(list) : list[k].id = id
    THEN CHOOSE k \in 1..Len(list) : list[k].id = id
    ELSE 0

\* The fused score the claim gives to id: one term 1/(60 + r) per list holding it.
ClaimedScore(id) ==
    LET r1 == RankIn(vectorMatches, id)
        r2 == RankIn(bm25Matches, id)
    IN  IF r1 # 0 /\ r2 # 0
        THEN [num |-> (60 + r1) + (60 + r2), den |-> (60 + r1) * (60 + r2)]
        ELSE IF r1 # 0 THEN [num |-> 1, den |-> 60 + r1]
        ELSE [num |-> 1, den |-> 60 + r2]

IdsOf(list) == {list[k].id : k \in 1..Len(list)}

\* C8: with K = 60 a chunk at rank r1 in the vector list and r2 in the lexical
\* list is scored 1/(60+r1) + 1/(60+r2), and a chunk in one list only, at rank
\* r, exactly 1/(60+r).
C8_FusedScore ==
    rrfPc \in {"sort", "done"} =>
        /\ IdsOf(scores) = IdsOf(vectorMatches) \cup IdsOf(bm25Matches)
        /\ \A k \in 1..Len(scores) :
              /\ scores[k].score.num * ClaimedScore(scores[k].id).den
                    = ClaimedScore(scores[k].id).num * scores[k].score.den
              /\ scores[k].score.den > 0

\* C8 witness: both lists are added; one chunk is in both lists at different
\* ranks, one only in the vector list and one only in the lexical list.
C8_Witness ==
    /\ rrfPc = "done"
    /\ \E id \in ChunkIds :
          /\ RankIn(vectorMatches, id) # 0 /\ RankIn(bm25Matches, id) # 0
          /\ RankIn(vectorMatches, id) # RankIn(bm25Matches, id)
    /\ \E id \in ChunkIds : RankIn(vectorMatches, id) # 0 /\ RankIn(bm25Matches, id) = 0
    /\ \E id \in ChunkIds : RankIn(vectorMatches, id) = 0 /\ RankIn(bm25Matches, id) # 0

\* The position at which id is first seen scanning the vector list, then the
\* lexical list.
FirstSeen(id) == RankIn(vectorMatches \o bm25Matches, id)

----------------------------------------------------------------------------
\* rerankChunks (search.ts).  The response text is a sequence of tokens: the
\* brackets and the comma, the numbers "0" and "1", "s" for a JSON string
\* literal that is no number, "x" for a word of prose.  White space between
\* tokens is not represented.

NumberTokens == {"0", "1"}

NumberValue(tok) == IF tok = "0" THEN 0 ELSE 1

\* The values a model writes into the score array.
ScoreTokens == NumberTokens \cup {"s"}

RECURSIVE CommaJoin(_)
CommaJoin(toks) ==
    IF toks = <<>> THEN <<>>
    ELSE IF Len(toks) = 1 THEN <<toks[1]>>
    ELSE <<toks[1], ",">> \o CommaJoin(Tail(toks))

\* The texts generateText may resolve with: an array of up to MaxScores values,
\* alone, inside prose, or with a stray bracket before or after it; prose
\* without any array; an array that is cut off.
ResponseTexts ==
    {pre \o <<"[">> \o CommaJoin(vals) \o <<"]">> \o post :
        pre \in {<<>>, <<"x">>, <<"[">>},
        post \in {<<>>, <<"x">>, <<"]">>},
        vals \in SeqUpTo(ScoreTokens, MaxScores)}
    \cup {<<>>, <<"x">>, <<"[", "1", ",">>, <<"[", "1", ",", "]">>, <<"[", "0", "1", "]">>}

Positions(text, tok) == {k \in 1..Len(text) : text[k] = tok}

Least(S) == CHOOSE k \in S : \A m \in S : k <= m
Greatest(S) == CHOOSE k \in S : \A m \in S : k >= m

\* text.match(/\[[\s\S]*\]/): from the first "[" to the last "]" behind it.
\* The result is [found, text].
MatchArray(text) ==
    LET opens == Positions(text, "[")
        closes == Positions(text, "]")
    IN  IF opens # {} /\ closes # {} /\ Least(opens) < Greatest(closes)
        THEN [found |-> TRUE, text |-> SubSeq(text, Least(opens), Greatest(closes))]
        ELSE [found |-> FALSE, text |-> <<>>]

ParseFail == [ok |-> FALSE, val |-> [t |-> "none"], next |-> 0]

RECURSIVE ParseValue(_, _)
RECURSIVE ParseItems(_, _, _)

\* JSON.parse, one value from position p: a number, a string or an array.
ParseValue(toks, p) ==
    IF p > Len(toks) THEN ParseFail
    ELSE IF toks[p] \in NumberTokens
    THEN [ok |-> TRUE, val |-> [t |-> "num", n |-> NumberValue(toks[p])], next |-> p + 1]
    ELSE IF toks[p] = "s"
    THEN [ok |-> TRUE, val |-> [t |-> "str"], next |-> p + 1]
    ELSE IF toks[p] = "["
    THEN IF p + 1 <= Len(toks) /\ toks[p + 1] = "]"
         THEN [ok |-> TRUE, val |-> [t |-> "arr", items |-> <<>>], next |-> p + 2]
         ELSE ParseItems(toks, p + 1, <<>>)
    ELSE ParseFail

\* JSON.parse, the elements of an array from position p, acc parsed so far.
ParseItems(toks, p, acc) ==
    LET item == ParseValue(toks, p)
    IN  IF ~item.ok \/ item.next > Len(toks) THEN ParseFail
        ELSE IF toks[item.next] = "]"
        THEN [ok |-> TRUE, val |-> [t |-> "arr", items |-> Append(acc, item.val)],
              next |-> item.next + 1]
        ELSE IF toks[item.next] = ","
        THEN ParseItems(toks, item.next + 1, Append(acc, item.val))
        ELSE ParseFail

\* JSON.parse(match[0]): the whole text must be one value; otherwise it throws.
JsonParse(toks) ==
    LET r == ParseValue(toks, 1)
    IN  IF r.ok /\ r.next = Len(toks) + 1
        THEN [ok |-> TRUE, val |-> r.val]
        ELSE [ok |-> FALSE, val |-> [t |-> "none"]]

\* Array.isArray(parsed).
IsArray(val) == val.t = "arr"

RECURSIVE ToNumber(_)
\* Number(value): [nan, n].  An array converts through its string form: empty
\* gives 0, one element gives that element's number, more give NaN.
ToNumber(val) ==
    IF val.t = "num" THEN [nan |-> FALSE, n |-> val.n]
    ELSE IF val.t = "arr" /\ Len(val.items) = 0 THEN [nan |-> FALSE, n |-> 0]
    ELSE IF val.t = "arr" /\ Len(val.items) = 1 THEN ToNumber(val.items[1])
    ELSE [nan |-> TRUE, n |-> 0]

\* Number.isFinite(Number(value)) ? Number(value) : 0.
ScoreOf(val) == IF ToNumber(val).nan THEN 0 ELSE ToNumber(val).n

\* The mutant of RankedAfter: equal scores count as out of order.
RankedAfterOrTie(a, b) == b.score - a.score >= 0

\* The comparator of scored.sort is positive: a sorts after b.
RankedAfter(a, b) ==
    IF b.score # a.score THEN b.score - a.score > 0 ELSE a.order - b.order > 0

RECURSIVE InsertRankedByScore(_, _)
\* The mutant of InsertRanked: one place per score, a later candidate of the
\* same score is left out.
InsertRankedByScore(sorted, x) ==
    IF sorted = <<>> THEN <<x>>
    ELSE IF Head(sorted).score = x.score THEN sorted
    ELSE IF RankedAfter(Head(sorted), x) THEN <<x>> \o sorted
    ELSE <<Head(sorted)>> \o InsertRankedByScore(Tail(sorted), x)

RECURSIVE InsertRanked(_, _)
InsertRanked(sorted, x) ==
    IF sorted = <<>> THEN <<x>>
    ELSE IF RankedAfter(Head(sorted), x) THEN <<x>> \o sorted
    ELSE <<Head(sorted)>> \o InsertRanked(Tail(sorted), x)

RECURSIVE SortRankedFrom(_, _, _)
SortRankedFrom(sorted, list, index) ==
    IF index < Len(list)
    THEN SortRankedFrom(InsertRanked(sorted, list[index + 1]), list, index + 1)
    ELSE sorted

\* scored.sort(...).
SortScored(scored) == SortRankedFrom(<<>>, scored, 0)

Returned(list) == [kind |-> "returned", list |-> list]
Thrown == [kind |-> "thrown", list |-> <<>>]

\* The mutant of OnCatch: the error of the scoring call reaches the caller.
OnCatchRethrow(input) == Thrown

\* catch { return chunks; }
OnCatch(input) == Returned(input)

\* The length test before scoring: if (scores.length < chunks.length) return chunks.
TooFewScores(scoreList, input) == Len(scoreList) < Len(input)

\* The statements of the try block behind the await, on the resolved text.
AfterResponse(input, text) ==
    LET match  == MatchArray(text)
        parsed == JsonParse(match.text)
        scoreList == [k \in 1..Len(parsed.val.items) |-> ScoreOf(parsed.val.items[k])]
        scored == [k \in 1..Len(input) |->
                      [chunk |-> input[k],
                       score |-> IF k <= Len(scoreList) THEN scoreList[k] ELSE 0,
                       order |-> k - 1]]
        sorted == SortScored(scored)
    IN  IF ~match.found THEN Returned(input)
        ELSE IF ~parsed.ok THEN OnCatch(input)
        ELSE IF ~IsArray(parsed.val) THEN Returned(input)
        ELSE IF TooFewScores(scoreList, input) THEN Returned(input)
        ELSE Returned([k \in 1..Len(sorted) |-> sorted[k].chunk])

RerankIdle ==
    /\ candidates = <<>>
    /\ response = [kind |-> "none", text |-> <<>>]
    /\ rerankResult = [kind |-> "none", list |-> <<>>]
    /\ rerankPc = "idle"

\* rerankChunks(question, chunks) with an empty list: returned at once.
RerankEmpty ==
    /\ rerankPc = "idle"
    /\ candidates' = <<>>
    /\ rerankResult' = Returned(<<>>)
    /\ rerankPc' = "done"
    /\ UNCHANGED response
    /\ UNCHANGED notRerank

\* rerankChunks(question, chunks) with candidates: the prompt is built and
\* generateText is awaited.
RerankCall ==
    /\ rerankPc = "idle"
    /\ \E list \in MatchLists("vector") : Len(list) > 0 /\ candidates' = list
    /\ rerankPc' = "await"
    /\ UNCHANGED <<response, rerankResult>>
    /\ UNCHANGED notRerank

\* generateText rejects: the catch block runs.
RerankRejected ==
    /\ rerankPc = "await"
    /\ response' = [kind |-> "rejected", text |-> <<>>]
    /\ rerankResult' = OnCatch(candidates)
    /\ rerankPc' = "done"
    /\ UNCHANGED candidates
    /\ UNCHANGED notRerank

\* generateText resolves with a text: match, parse, score, sort.
RerankResolved ==
    /\ rerankPc = "await"
    /\ \E text \in ResponseTexts :
          /\ response' = [kind |-> "resolved", text |-> text]
          /\ rerankResult' = AfterResponse(candidates, text)
    /\ rerankPc' = "done"
    /\ UNCHANGED candidates
    /\ UNCHANGED notRerank

----------------------------------------------------------------------------
\* Claims about rerankChunks.

\* The scoring call failed: the service raised an error, the response holds
\* no JSON array, the array text does not parse, or the parsed value is no array.
ScoringFailed ==
    \/ response.kind = "rejected"
    \/ /\ response.kind = "resolved"
       /\ \/ ~MatchArray(response.text).found
          \/ ~JsonParse(MatchArray(response.text).text).ok
          \/ ~IsArray(JsonParse(MatchArray(response.text).text).val)

\* C10: when the scoring call fails in any of these ways rerankChunks returns
\* the exact input list, and no error reaches the caller.
C10_FailOpen ==
    (rerankPc = "done" /\ ScoringFailed) =>
        /\ rerankResult.kind = "returned"
        /\ rerankResult.list = candidates

\* C10 witness: a call with three candidates whose response holds brackets
\* around text that is no JSON ("[" 1 , 0 "]" "]") ended with the input list.
C10_Witness ==
    /\ rerankPc = "done"
    /\ Len(candidates) = 3
    /\ response.kind = "resolved"
    /\ response.text = <<"[", "1", ",", "0", "]", "]">>
    /\ rerankResult = Returned(candidates)

\* The response parsed to a JSON array: its converted scores.
ParsedScores ==
    LET items == JsonParse(MatchArray(response.text).text).val.items
    IN  [k \in 1..Len(items) |-> ScoreOf(items[k])]

\* C11: whenever the response holds a score array whose length differs from the
\* number of candidates, shorter or longer, rerankChunks returns the input
\* list unchanged.
C11_LengthMismatchFallsBack ==
    (/\ rerankPc = "done"
     /\ response.kind = "resolved"
     /\ ~ScoringFailed
     /\ Len(ParsedScores) # Len(candidates))
    => rerankResult = Returned(candidates)

\* C12: whatever the response of the scoring service, rerankChunks returns a
\* permutation of its input: no candidate dropped, added or duplicated.
C12_Permutation ==
    rerankPc = "done" =>
        /\ rerankResult.kind = "returned"
        /\ Len(rerankResult.list) = Len(candidates)
        /\ \E perm \in Permutations(1..Len(candidates)) :
              \A k \in 1..Len(candidates) :
                 rerankResult.list[k] = candidates[perm[k]]

\* C12 witness: three candidates, two of them with the same score, came back
\* in another order.
C12_Witness ==
    /\ rerankPc = "done"
    /\ Len(candidates) = 3
    /\ response.kind = "resolved"
    /\ response.text = <<"[", "0", ",", "1", ",", "1", "]">>
    /\ rerankResult.kind = "returned"
    /\ rerankResult.list # candidates

\* The position of a returned chunk in the input list.
InputPosition(chunk) == CHOOSE k \in 1..Len(candidates) : candidates[k] = chunk

\* C13: when the response holds one score per candidate, the returned list is
\* in descending score order and candidates of equal score keep the relative
\* order of the input list.
C13_DescendingStable ==
    (/\ rerankPc = "done"
     /\ response.kind = "resolved"
     /\ ~ScoringFailed
     /\ Len(ParsedScores) = Len(candidates))
    => /\ rerankResult.kind = "returned"
       /\ Len(rerankResult.list) = Len(candidates)
       /\ \A a \in 1..Len(candidates), b \in 1..Len(candidates) :
             a < b =>
                LET ia == InputPosition(rerankResult.list[a])
                    ib == InputPosition(rerankResult.list[b])
                IN  \/ ParsedScores[ia] > ParsedScores[ib]
                    \/ ParsedScores[ia] = ParsedScores[ib] /\ ia < ib

\* C13 witness: scores 1, 0, 1 for three candidates: the third moved before
\* the second and stayed behind the first.
C13_Witness ==
    /\ rerankPc = "done"
    /\ Len(candidates) = 3
    /\ response.kind = "resolved"
    /\ response.text = <<"[", "1", ",", "0", ",", "1", "]">>
    /\ rerankResult = Returned(<<candidates[1], candidates[3], candidates[2]>>)

----------------------------------------------------------------------------
\* The database (db.ts) and runIngest (ingest.ts).

EMBEDDING_DIMENSIONS == 1024
SCHEMA_VERSION == 2

\* The lessons: the stems of the .srt files of the transcripts directory, in
\* the order readdir lists them.
srtFiles == <<"a", "b">>
Lessons == {srtFiles[k] : k \in 1..Len(srtFiles)}

\* File contents: no block; one cue; two cues 50 seconds apart; one cue whose
\* text is a bracketed annotation only.
ContentNames == {"empty", "one", "two", "cue"}

ContentOf(name) ==
    IF name = "one"
    THEN << <<TextLine(<<"1">>), TimeLine(0, 40), TextLine(<<"a">>)>> >>
    ELSE IF name = "two"
    THEN << <<TextLine(<<"1">>), TimeLine(0, 40), TextLine(<<"a">>)>>,
            <<TextLine(<<"0">>), TimeLine(50, 60), TextLine(<<"b">>)>> >>
    ELSE IF name = "cue"
    THEN << <<TextLine(<<"1">>), TimeLine(0, 40), TextLine(<<"[", "a", "]">>)>> >>
    ELSE <<>>

\* stats.size: the length of the content ("one" and "cue" are equally long).
SizeOf(name) ==
    IF name = "empty" THEN 0 ELSE IF name = "two" THEN 2 ELSE 1

FileStates == [mtime : 1..MaxMtime, content : ContentNames]

\* The lengths embedTexts may return for one embedding.
EmbeddingLengths == {EMBEDDING_DIMENSIONS, EMBEDDING_DIMENSIONS - 1}

\* The lesson of the current iteration: parsePath(filename).name.
lessonName == srtFiles[fileIdx + 1]

\* The rows of one lesson.
ChunkRows(lesson) == {r \in chunksTable : r.lesson_name = lesson}
FtsRows(lesson) == {r \in chunksFts : r.lesson_name = lesson}
VecRows(lesson) == {id \in vecChunks : \E r \in ChunkRows(lesson) : r.id = id}
Fingerprint(lesson) == {r \in processedFiles : r.filename = lesson}

\* getProcessedInfo(filename): the record, or none (null).
GetProcessedInfo(filename) ==
    {[mtime |-> r.mtime, size |-> r.size] : r \in Fingerprint(filename)}

\* The mutant of IsUnchanged: a comparison that never succeeds.
IsUnchangedNever(proc, st) == FALSE

\* isUnchanged = processed && processed.mtime === mtime && processed.size === size.
IsUnchanged(proc, st) == \E r \in proc : r.mtime = st.mtime /\ r.size = st.size

\* The mutant of MustDelete: the lesson is wiped only under --force.
MustDeleteForced(forced, proc) == forced

\* if (options.force || processed) deleteByLesson(lessonName).
MustDelete(forced, proc) == forced \/ proc # {}

\* result.lastInsertRowid of an INSERT into chunks: one more than the largest
\* rowid of the table, 1 when it is empty.
NextRowId ==
    IF chunksTable = {} THEN 1
    ELSE 1 + (CHOOSE m \in {r.id : r \in chunksTable} :
                 \A r \in chunksTable : r.id <= m)

\* The chunks of a file content: aggregateEntries(normalizeEntries(parseSrt(content)), 45, 10).
ChunksOfContent(name) ==
    AggregateEntries(NormalizeEntries(ParseSrt(ContentOf(name))), 45, 10)

IngestIdle ==
    /\ files \in [Lessons -> {f \in FileStates : f.mtime = 1}]
    /\ userVersion = 0
    /\ chunksTable = {}
    /\ chunksFts = {}
    /\ vecChunks = {}
    /\ processedFiles = {}
    /\ pc = "idle"
    /\ force = FALSE
    /\ fileIdx = 0
    /\ stats = [mtime |-> 0, size |-> 0]
    /\ processed = {}
    /\ runChunks = <<>>
    /\ embeddings = <<>>
    /\ insertPos = 0
    /\ chunkId = 0
    /\ ingested = 0
    /\ skipped = 0
    /\ lastRun = "none"
    /\ runCount = 0

\* The locals of a run that are reset when a file is left.
ResetFileLocals ==
    /\ stats' = [mtime |-> 0, size |-> 0]
    /\ processed' = {}
    /\ runChunks' = <<>>
    /\ embeddings' = <<>>
    /\ insertPos' = 0
    /\ chunkId' = 0

\* The process exits: its locals are gone.
ExitProcess ==
    /\ force' = FALSE
    /\ fileIdx' = 0
    /\ ingested' = 0
    /\ skipped' = 0
    /\ ResetFileLocals

\* Between two runs the user edits or touches a transcript: its modification
\* time moves on.
EditFile ==
    /\ pc = "idle"
    /\ \E lesson \in Lessons, f \in FileStates :
          /\ f.mtime = files[lesson].mtime + 1
          /\ files' = [files EXCEPT ![lesson] = f]
    /\ UNCHANGED <<userVersion, chunksTable, chunksFts, vecChunks, processedFiles>>
    /\ UNCHANGED runVars
    /\ UNCHANGED notIngest

\* `bun index.ts --ingest [--force]`: a process starts runIngest.
StartRun ==
    /\ pc = "idle"
    /\ runCount < MaxRuns
    /\ runCount' = runCount + 1
    /\ \E f \in BOOLEAN : force' = f
    /\ pc' = "initDb"
    /\ lastRun' = "none"
    /\ UNCHANGED <<fileIdx, ingested, skipped>>
    /\ UNCHANGED <<stats, processed, runChunks, embeddings, insertPos, chunkId>>
    /\ UNCHANGED dbVars
    /\ UNCHANGED notIngest

\* await initDb(): a database of another schema version is dropped and created anew.
InitDb ==
    /\ pc = "initDb"
    /\ IF userVersion # SCHEMA_VERSION
       THEN /\ chunksFts' = {}
            /\ vecChunks' = {}
            /\ chunksTable' = {}
            /\ processedFiles' = {}
            /\ userVersion' = SCHEMA_VERSION
       ELSE UNCHANGED <<userVersion, chunksTable, chunksFts, vecChunks, processedFiles>>
    /\ pc' = "file"
    /\ UNCHANGED files
    /\ UNCHANGED <<force, fileIdx, stats, processed, runChunks, embeddings, insertPos,
                   chunkId, ingested, skipped, lastRun, runCount>>
    /\ UNCHANGED notIngest

\* The head of the for loop: stat and getProcessedInfo of the next file.
StatFile ==
    /\ pc = "file"
    /\ fileIdx < Len(srtFiles)
    /\ stats' = [mtime |-> files[lessonName].mtime, size |-> SizeOf(files[lessonName].content)]
    /\ processed' = GetProcessedInfo(lessonName)
    /\ pc' = "decide"
    /\ UNCHANGED <<force, fileIdx, runChunks, embeddings, insertPos, chunkId, ingested, skipped, lastRun, runCount>>
    /\ UNCHANGED dbVars
    /\ UNCHANGED notIngest

\* if (!options.force && isUnchanged) { skipped += 1; continue; }
SkipUnchanged ==
    /\ pc = "decide"
    /\ ~force /\ IsUnchanged(processed, stats)
    /\ skipped' = skipped + 1
    /\ fileIdx' = fileIdx + 1
    /\ pc' = "file"
    /\ ResetFileLocals
    /\ UNCHANGED <<force, ingested, lastRun, runCount>>
    /\ UNCHANGED dbVars
    /\ UNCHANGED notIngest

\* The file is to be written: deleteByLesson first when MustDelete says so.
DecideWrite ==
    /\ pc = "decide"
    /\ ~(~force /\ IsUnchanged(processed, stats))
    /\ pc' = IF MustDelete(force, processed) THEN "deleteVec" ELSE "parse"
    /\ UNCHANGED <<force, fileIdx, stats, processed, runChunks, embeddings, insertPos,
                   chunkId, ingested, skipped, lastRun, runCount>>
    /\ UNCHANGED dbVars
    /\ UNCHANGED notIngest

\* deleteByLesson: SELECT id FROM chunks WHERE lesson_name = ?, then
\* DELETE FROM vec_chunks WHERE chunk_id IN (ids) when there are ids.
DeleteVec ==
    /\ pc = "deleteVec"
    /\ vecChunks' = vecChunks \ {r.id : r \in ChunkRows(lessonName)}
    /\ pc' = "deleteChunks"
    /\ UNCHANGED <<files, userVersion, chunksTable, chunksFts, processedFiles>>
    /\ UNCHANGED <<force, fileIdx, stats, processed, runChunks, embeddings, insertPos,
                   chunkId, ingested, skipped, lastRun, runCount>>
    /\ UNCHANGED notIngest

\* deleteByLesson: DELETE FROM chunks WHERE lesson_name = ?.
DeleteChunks ==
    /\ pc = "deleteChunks"
    /\ chunksTable' = chunksTable \ ChunkRows(lessonName)
    /\ pc' = "deleteFts"
    /\ UNCHANGED <<files, userVersion, chunksFts, vecChunks, processedFiles>>
    /\ UNCHANGED <<force, fileIdx, stats, processed, runChunks, embeddings, insertPos,
                   chunkId, ingested, skipped, lastRun, runCount>>
    /\ UNCHANGED notIngest

\* deleteByLesson: DELETE FROM chunks_fts WHERE lesson_name = ?.
DeleteFts ==
    /\ pc = "deleteFts"
    /\ chunksFts' = chunksFts \ FtsRows(lessonName)
    /\ pc' = "deleteProcessed"
    /\ UNCHANGED <<files, userVersion, chunksTable, vecChunks, processedFiles>>
    /\ UNCHANGED <<force, fileIdx, stats, processed, runChunks, embeddings, insertPos,
                   chunkId, ingested, skipped, lastRun, runCount>>
    /\ UNCHANGED notIngest

\* deleteByLesson: DELETE FROM processed_files WHERE filename = ?.
DeleteProcessed ==
    /\ pc = "deleteProcessed"
    /\ processedFiles' = processedFiles \ Fingerprint(lessonName)
    /\ pc' = "parse"
    /\ UNCHANGED <<files, userVersion, chunksTable, chunksFts, vecChunks>>
    /\ UNCHANGED <<force, fileIdx, stats, processed, runChunks, embeddings, insertPos,
                   chunkId, ingested, skipped, lastRun, runCount>>
    /\ UNCHANGED notIngest

\* file.text(), parseSrt, normalizeEntries, aggregateEntries: no entries or no
\* chunks, and the loop continues with the next file.
ParseNothing ==
    /\ pc = "parse"
    /\ \/ ParseSrt(ContentOf(files[lessonName].content)) = <<>>
       \/ ChunksOfContent(files[lessonName].content) = <<>>
    /\ fileIdx' = fileIdx + 1
    /\ pc' = "file"
    /\ ResetFileLocals
    /\ UNCHANGED <<force, ingested, skipped, lastRun, runCount>>
    /\ UNCHANGED dbVars
    /\ UNCHANGED notIngest

\* The same statements with chunks, and await embedTexts(chunks.map(...)).
ParseAndEmbed ==
    /\ pc = "parse"
    /\ ParseSrt(ContentOf(files[lessonName].content)) # <<>>
    /\ ChunksOfContent(files[lessonName].content) # <<>>
    /\ runChunks' = ChunksOfContent(files[lessonName].content)
    /\ \E lens \in [1..Len(ChunksOfContent(files[lessonName].content)) -> EmbeddingLengths] :
          embeddings' = lens
    /\ insertPos' = 0
    /\ pc' = "insertChunk"
    /\ UNCHANGED <<force, fileIdx, stats, processed, chunkId, ingested, skipped, lastRun, runCount>>
    /\ UNCHANGED dbVars
    /\ UNCHANGED notIngest

\* insertChunk: INSERT INTO chunks (...); chunkId = lastInsertRowid.
InsertChunkRow ==
    /\ pc = "insertChunk"
    /\ NextRowId <= MaxRowId
    /\ chunksTable' = chunksTable \cup
          {[id |-> NextRowId, lesson_name |-> lessonName,
            chunk_index |-> runChunks[insertPos + 1].chunkIndex]}
    /\ chunkId' = NextRowId
    /\ pc' = "insertFts"
    /\ UNCHANGED <<files, userVersion, chunksFts, vecChunks, processedFiles>>
    /\ UNCHANGED <<force, fileIdx, stats, processed, runChunks, embeddings, insertPos,
                   ingested, skipped, lastRun, runCount>>
    /\ UNCHANGED notIngest

\* insertChunk: INSERT INTO chunks_fts (chunk_id, lesson_name, text).
InsertFtsRow ==
    /\ pc = "insertFts"
    /\ chunksFts' = chunksFts \cup {[chunk_id |-> chunkId, lesson_name |-> lessonName]}
    /\ pc' = "insertEmbedding"
    /\ UNCHANGED <<files, userVersion, chunksTable, vecChunks, processedFiles>>
    /\ UNCHANGED <<force, fileIdx, stats, processed, runChunks, embeddings, insertPos,
                   chunkId, ingested, skipped, lastRun, runCount>>
    /\ UNCHANGED notIngest

\* insertEmbedding(chunkId, embedding) with an embedding of the right length:
\* INSERT INTO vec_chunks, and the insert loop goes on.
InsertEmbedding ==
    /\ pc = "insertEmbedding"
    /\ embeddings[insertPos + 1] = EMBEDDING_DIMENSIONS
    /\ vecChunks' = vecChunks \cup {chunkId}
    /\ insertPos' = insertPos + 1
    /\ pc' = IF insertPos + 1 < Len(runChunks) THEN "insertChunk" ELSE "record"
    /\ UNCHANGED <<files, userVersion, chunksTable, chunksFts, processedFiles>>
    /\ UNCHANGED <<force, fileIdx, stats, processed, runChunks, embeddings,
                   chunkId, ingested, skipped, lastRun, runCount>>
    /\ UNCHANGED notIngest

\* insertEmbedding(chunkId, embedding) with an embedding of another length: it
\* throws, nothing in runIngest catches, and runCli's caller exits the process.
InsertEmbeddingThrows ==
    /\ pc = "insertEmbedding"
    /\ embeddings[insertPos + 1] # EMBEDDING_DIMENSIONS
    /\ pc' = "idle"
    /\ lastRun' = "failed"
    /\ ExitProcess
    /\ UNCHANGED runCount
    /\ UNCHANGED dbVars
    /\ UNCHANGED notIngest

\* recordProcessed(lessonName, mtime, size): INSERT OR REPLACE; ingested += 1.
RecordProcessed ==
    /\ pc = "record"
    /\ processedFiles' = (processedFiles \ Fingerprint(lessonName)) \cup
          {[filename |-> lessonName, mtime |-> stats.mtime, size |-> stats.size]}
    /\ ingested' = ingested + 1
    /\ fileIdx' = fileIdx + 1
    /\ pc' = "file"
    /\ ResetFileLocals
    /\ UNCHANGED <<files, userVersion, chunksTable, chunksFts, vecChunks>>
    /\ UNCHANGED <<force, skipped, lastRun, runCount>>
    /\ UNCHANGED notIngest

\* The for loop is over: the run completes.
FinishRun ==
    /\ pc = "file"
    /\ fileIdx = Len(srtFiles)
    /\ pc' = "idle"
    /\ lastRun' = "completed"
    /\ ExitProcess
    /\ UNCHANGED runCount
    /\ UNCHANGED dbVars
    /\ UNCHANGED notIngest

\* The process is killed between two statements (every statement commits on
\* its own: there is no transaction).
KillRun ==
    /\ pc # "idle"
    /\ pc' = "idle"
    /\ lastRun' = "killed"
    /\ ExitProcess
    /\ UNCHANGED runCount
    /\ UNCHANGED dbVars
    /\ UNCHANGED notIngest

----------------------------------------------------------------------------
\* Claims about the ingestion.

\* The positions of a run in which it writes the rows of the current lesson.
WritePositions ==
    {"deleteVec", "deleteChunks", "deleteFts", "deleteProcessed", "parse",
     "insertChunk", "insertFts", "insertEmbedding", "record"}

\* The stored chunks of a lesson carry pairwise distinct indexes 0..n-1.
Dense(lesson) ==
    LET indexes == {r.chunk_index : r \in ChunkRows(lesson)}
    IN  /\ Cardinality(indexes) = Cardinality(ChunkRows(lesson))
        /\ indexes = 0..(Cardinality(ChunkRows(lesson)) - 1)

\* C1: after every completed ingest run, whatever runs came before (forced or
\* not, file edited or not, earlier runs killed between two store operations
\* or failed), the stored chunks of every lesson have pairwise distinct
\* chunk_index values that are exactly 0..n-1.
C1_DenseAfterCompletedRun ==
    (pc = "idle" /\ lastRun = "completed") => \A lesson \in Lessons : Dense(lesson)

\* No row of any table belongs to the lesson.
Wiped(lesson) ==
    /\ ChunkRows(lesson) = {}
    /\ VecRows(lesson) = {}
    /\ FtsRows(lesson) = {}
    /\ Fingerprint(lesson) = {}

\* The rows of the lesson, table by table.
RowsOf(lesson) ==
    <<ChunkRows(lesson), VecRows(lesson), FtsRows(lesson), Fingerprint(lesson)>>

\* C2: when a run goes on to write a lesson under --force or with a fingerprint
\* on record, then before the first new chunk of the lesson is inserted the
\* lesson has no chunk row, no vector row, no lexical row and no fingerprint
\* left, and the steps that write the lesson leave every other lesson's rows
\* as they were.
C2_WipedBeforeRewrite ==
    [][/\ (/\ pc' = "parse" \/ (pc' = "insertChunk" /\ insertPos' = 0)
           /\ force' \/ processed' # {})
          => Wiped(lessonName)'
       /\ pc \in WritePositions
          => \A other \in Lessons \ {lessonName} : RowsOf(other)' = RowsOf(other)
      ]_vars

\* C2 witness: the second run, not forced, has found the fingerprint the first
\* run left for lesson "a", has deleted it with the rows, and is about to
\* insert the first new chunk, while lesson "b" still has its rows.
C2_Witness ==
    /\ pc = "insertChunk" /\ insertPos = 0
    /\ runCount = 2 /\ ~force /\ processed # {}
    /\ fileIdx = 0
    /\ Wiped("a")
    /\ ChunkRows("b") # {} /\ VecRows("b") # {} /\ FtsRows("b") # {}
    /\ Fingerprint("b") # {}

\* The stored fingerprint of the lesson equals the (mtime, size) of its file.
FingerprintMatches(lesson) ==
    \E r \in Fingerprint(lesson) :
       /\ r.mtime = files[lesson].mtime
       /\ r.size = SizeOf(files[lesson].content)

\* C3: a run without --force that comes to a lesson whose fingerprint equals
\* the file's (mtime, size) counts it as skipped and moves to the next file,
\* and no step of a run changes the rows of a fingerprinted lesson except the
\* steps that write that very lesson: the chunk rows, vector rows, lexical rows
\* and fingerprint of the skipped lesson are the same before and after.
C3_SkipLeavesLesson ==
    [][\A lesson \in Lessons :
          /\ (/\ pc = "decide" /\ lessonName = lesson
              /\ ~force /\ FingerprintMatches(lesson)
              /\ pc' # "idle")
             => /\ skipped' = skipped + 1
                /\ ingested' = ingested
                /\ pc' = "file" /\ fileIdx' = fileIdx + 1
                /\ RowsOf(lesson)' = RowsOf(lesson)
          /\ (/\ pc # "idle"
              /\ Fingerprint(lesson) # {}
              /\ ~(pc \in WritePositions /\ lessonName = lesson))
             => RowsOf(lesson)' = RowsOf(lesson)
      ]_vars

\* C3 witness: the second run has skipped lesson "a", whose two chunks and
\* fingerprint of the first run are in place.
C3_Witness ==
    /\ pc = "file" /\ fileIdx = 1
    /\ runCount = 2 /\ ~force
    /\ skipped = 1 /\ ingested = 0
    /\ Cardinality(ChunkRows("a")) = 2
    /\ Cardinality(VecRows("a")) = 2
    /\ Cardinality(FtsRows("a")) = 2
    /\ FingerprintMatches("a")

\* C4: when the embedding of a chunk has not 1024 dimensions, the insertion
\* fails with no chunk row, no lexical row and no vector row stored for that
\* chunk.
C4_MismatchWritesNothing ==
    [][(/\ pc = "insertEmbedding"
        /\ embeddings[insertPos + 1] # EMBEDDING_DIMENSIONS
        /\ lastRun' = "failed")
       => /\ \A r \in chunksTable' : r.id # chunkId
          /\ \A r \in chunksFts' : r.chunk_id # chunkId
          /\ chunkId \notin vecChunks'
      ]_vars

\* The store holds every chunk of the lesson's file, each with its vector row
\* and its lexical-index row.
CompleteLesson(lesson) ==
    LET fileChunkSet == ChunksOfContent(files[lesson].content)
    IN  /\ {r.chunk_index : r \in ChunkRows(lesson)}
              = {fileChunkSet[k].chunkIndex : k \in 1..Len(fileChunkSet)}
        /\ \A r \in ChunkRows(lesson) :
              /\ r.id \in vecChunks
              /\ \E f \in FtsRows(lesson) : f.chunk_id = r.id

\* C25: whenever no run is in progress, after completed, failed and killed
\* runs alike, a lesson whose stored fingerprint equals the (mtime, size) of
\* its file, the lesson a run without --force would skip, has its complete
\* chunk set in the store, with a vector row and a lexical-index row for
\* every chunk.
C25_FingerprintImpliesComplete ==
    pc = "idle" =>
        \A lesson \in Lessons : FingerprintMatches(lesson) => CompleteLesson(lesson)

----------------------------------------------------------------------------
\* expandNeighbors (search.ts) over the chunks table the ingestion left.

NEIGHBOR_WINDOW == 1

\* A row of the chunks table as a RetrievedChunk.
AsRetrieved(r) == [id |-> r.id, lessonName |-> r.lesson_name, chunkIndex |-> r.chunk_index]

\* The orders in which a set of chunks can be listed under ORDER BY chunk_index
\* (rows of equal chunk_index come in an order SQLite does not fix).
OrderedByIndex(S) ==
    {list \in SeqUpTo(S, Cardinality(S)) :
        /\ Len(list) = Cardinality(S)
        /\ \A a \in 1..Len(list), b \in 1..Len(list) :
              /\ a # b => list[a] # list[b]
              /\ a < b => list[a].chunkIndex <= list[b].chunkIndex}

\* getChunksByLessonAndIndexes(lessonName, indexes): the results it may return.
GetChunksByLessonAndIndexes(lesson, indexes) ==
    IF indexes = {} THEN {<<>>}
    ELSE OrderedByIndex({AsRetrieved(r) : r \in {r \in chunksTable :
                            r.lesson_name = lesson /\ r.chunk_index \in indexes}})

RECURSIVE UniqueFrom(_, _, _, _)
UniqueFrom(list, index, seen, result) ==
    IF index < Len(list)
    THEN IF list[index + 1].id \in seen
         THEN UniqueFrom(list, index + 1, seen, result)
         ELSE UniqueFrom(list, index + 1, seen \cup {list[index + 1].id},
                         Append(result, list[index + 1]))
    ELSE result

\* uniqueById(chunks).
UniqueById(list) == UniqueFrom(list, 0, {}, <<>>)

\* a.localeCompare(b) on lesson names: negative, zero or positive.
LocaleCompare(a, b) ==
    LET ord(name) == IF name = "a" THEN 1 ELSE 2
    IN  ord(a) - ord(b)

\* The comparator of sortByLessonAndIndex is positive: a sorts after b.
PresentedAfter(a, b) ==
    IF a.lessonName # b.lessonName
    THEN LocaleCompare(a.lessonName, b.lessonName) > 0
    ELSE a.chunkIndex - b.chunkIndex > 0

RECURSIVE InsertPresented(_, _)
InsertPresented(sorted, x) ==
    IF sorted = <<>> THEN <<x>>
    ELSE IF PresentedAfter(Head(sorted), x) THEN <<x>> \o sorted
    ELSE <<Head(sorted)>> \o InsertPresented(Tail(sorted), x)

RECURSIVE SortPresentedFrom(_, _, _)
SortPresentedFrom(sorted, list, index) ==
    IF index < Len(list)
    THEN SortPresentedFrom(InsertPresented(sorted, list[index + 1]), list, index + 1)
    ELSE sorted

\* sortByLessonAndIndex(chunks): a stable sort of a copy.
SortByLessonAndIndex(list) == SortPresentedFrom(<<>>, list, 0)

\* collectNeighborIndexes(chunks, window): lesson -> set of indexes; a lesson
\* without a chunk in the list has no key.
CollectNeighborIndexes(list, window) ==
    [lesson \in {list[k].lessonName : k \in 1..Len(list)} |->
        {index \in {list[k].chunkIndex + offset :
                       k \in {m \in 1..Len(list) : list[m].lessonName = lesson},
                       offset \in (0 - window)..window \ {0}} : index >= 0}]

\* The keys of the neighbor map in insertion order: the lessons in the order
\* of their first chunk in the list.
RECURSIVE KeysFrom(_, _, _)
KeysFrom(list, index, keys) ==
    IF index < Len(list)
    THEN IF \E k \in 1..Len(keys) : keys[k] = list[index + 1].lessonName
         THEN KeysFrom(list, index + 1, keys)
         ELSE KeysFrom(list, index + 1, Append(keys, list[index + 1].lessonName))
    ELSE keys

\* The neighbors lists the loop over neighborMap.entries() may collect.
RECURSIVE NeighborsFrom(_, _, _)
NeighborsFrom(keys, index, map) ==
    IF index < Len(keys)
    THEN {fetched \o rest :
             fetched \in GetChunksByLessonAndIndexes(keys[index + 1], map[keys[index + 1]]),
             rest \in NeighborsFrom(keys, index + 1, map)}
    ELSE {<<>>}

\* expandNeighbors(chunks, window): the lists it may return.
ExpandNeighbors(list, window) ==
    IF window <= 0 \/ Len(list) = 0 THEN {list}
    ELSE {SortByLessonAndIndex(UniqueById(list \o neighbors)) :
             neighbors \in NeighborsFrom(KeysFrom(list, 0, <<>>), 0,
                                         CollectNeighborIndexes(list, window))}

\* The selections answerQuestion hands in: stored chunks, no id twice (the
\* fused list holds every id once).
Selections ==
    {list \in SeqUpTo({AsRetrieved(r) : r \in chunksTable}, MaxSelection) :
        \A a \in 1..Len(list), b \in 1..Len(list) : a # b => list[a].id # list[b].id}

ExpandIdle ==
    /\ selection = <<>>
    /\ expanded = <<>>
    /\ expandPc = "idle"

\* answerQuestion calls expandNeighbors(topK, NEIGHBOR_WINDOW) while no
\* ingestion runs.
ExpandCall ==
    /\ expandPc = "idle"
    /\ pc = "idle"
    /\ \E list \in Selections :
          /\ selection' = list
          /\ \E result \in ExpandNeighbors(list, NEIGHBOR_WINDOW) : expanded' = result
    /\ expandPc' = "done"
    /\ UNCHANGED notExpand

\* The answer is printed and the process ends.
ExpandReturn ==
    /\ expandPc = "done"
    /\ selection' = <<>>
    /\ expanded' = <<>>
    /\ expandPc' = "idle"
    /\ UNCHANGED notExpand

----------------------------------------------------------------------------
\* Claims about expandNeighbors.

\* No two chunks of the list share an identity (lesson, chunk_index).
DistinctIdentities(list) ==
    \A a \in 1..Len(list), b \in 1..Len(list) :
       a # b => \/ list[a].lessonName # list[b].lessonName
                \/ list[a].chunkIndex # list[b].chunkIndex

\* C14: for every non-empty selection (of chunks with distinct identities) and
\* radius 1 over any stored chunk set, the output of expandNeighbors contains
\* every chunk of the selection, is sorted by (lesson name, chunk_index
\* ascending), and holds no two chunks of the same identity.
C14_ExpandContract ==
    (expandPc = "done" /\ selection # <<>> /\ DistinctIdentities(selection))
    => /\ \A k \in 1..Len(selection) :
             \E m \in 1..Len(expanded) : expanded[m] = selection[k]
       /\ \A a \in 1..Len(expanded), b \in 1..Len(expanded) :
             a < b =>
                \/ LocaleCompare(expanded[a].lessonName, expanded[b].lessonName) < 0
                \/ /\ expanded[a].lessonName = expanded[b].lessonName
                   /\ expanded[a].chunkIndex <= expanded[b].chunkIndex
       /\ DistinctIdentities(expanded)

----------------------------------------------------------------------------
\* levenshteinDistance, lessonSimilarity and suggestLessons (cli.ts).

\* matrix[aLen][bLen] of levenshteinDistance: row 0 and column 0 hold the
\* index, every other cell the least of the three neighbours' costs.
LevenshteinDistance(a, b) ==
    LET aLen == Len(a)
        bLen == Len(b)
        matrix[i \in 0..aLen, j \in 0..bLen] ==
            IF j = 0 THEN i
            ELSE IF i = 0 THEN j
            ELSE LET cost == IF LowerChar(a[i]) = LowerChar(b[j]) THEN 0 ELSE 1
                 IN  Min(Min(matrix[i - 1, j] + 1, matrix[i, j - 1] + 1),
                         matrix[i - 1, j - 1] + cost)
    IN  IF aLen = 0 THEN bLen
        ELSE IF bLen = 0 THEN aLen
        ELSE matrix[aLen, bLen]

\* String.prototype.includes: part occurs in s.
Includes(s, part) ==
    \E k \in 0..(Len(s) - Len(part)) : SubSeq(s, k + 1, k + Len(part)) = part

Max(a, b) == IF a >= b THEN a ELSE b

\* lessonSimilarity(a, b) as an exact fraction (0.95 is 19/20).
LessonSimilarity(a, b) ==
    LET aLower == ToLowerCase(a)
        bLower == ToLowerCase(b)
    IN  IF aLower = bLower THEN [num |-> 1, den |-> 1]
        ELSE IF Includes(aLower, bLower) \/ Includes(bLower, aLower)
        THEN [num |-> 19, den |-> 20]
        ELSE [num |-> Max(Len(aLower), Len(bLower)) - LevenshteinDistance(aLower, bLower),
              den |-> Max(Len(aLower), Len(bLower))]

\* The comparator b.score - a.score is positive: a sorts after b.
SuggestedAfter(a, b) == FracLess(a.score, b.score)

RECURSIVE InsertSuggested(_, _)
InsertSuggested(sorted, x) ==
    IF sorted = <<>> THEN <<x>>
    ELSE IF SuggestedAfter(Head(sorted), x) THEN <<x>> \o sorted
    ELSE <<Head(sorted)>> \o InsertSuggested(Tail(sorted), x)

RECURSIVE SortSuggestedFrom(_, _, _)
SortSuggestedFrom(sorted, list, index) ==
    IF index < Len(list)
    THEN SortSuggestedFrom(InsertSuggested(sorted, list[index + 1]), list, index + 1)
    ELSE sorted

\* The mutant of FilterPositive: nothing is filtered out.
FilterNothing(list) == list

\* Array.prototype.filter with a predicate on the score.
RECURSIVE FilterPositive(_)
FilterPositive(list) ==
    IF list = <<>> THEN <<>>
    ELSE IF Head(list).score.num > 0
    THEN <<Head(list)>> \o FilterPositive(Tail(list))
    ELSE FilterPositive(Tail(list))

\* Array.prototype.slice(0, n).
SliceTo(list, n) == SubSeq(list, 1, Min(n, Len(list)))

\* suggestLessons(input, available): map, filter, sort, slice(0, 5), map.
SuggestLessons(input, known) ==
    LET scored == [k \in 1..Len(known) |->
                      [name |-> known[k], score |-> LessonSimilarity(input, known[k])]]
        kept == SliceTo(SortSuggestedFrom(<<>>, FilterPositive(scored), 0), 5)
    IN  [k \in 1..Len(kept) |-> kept[k].name]

\* UTF-16 code order of the characters of lesson names.
CharCode(c) ==
    IF c = "1" THEN 49 ELSE IF c = "2" THEN 50
    ELSE IF c = "A" THEN 65 ELSE IF c = "B" THEN 66 ELSE IF c = "L" THEN 76
    ELSE IF c = "a" THEN 97 ELSE IF c = "b" THEN 98 ELSE IF c = "e" THEN 101
    ELSE IF c = "l" THEN 108 ELSE IF c = "n" THEN 110 ELSE IF c = "o" THEN 111
    ELSE 115

\* ORDER BY lesson_name: a comes before b in binary collation.
RECURSIVE NameBefore(_, _)
NameBefore(a, b) ==
    IF b = <<>> THEN FALSE
    ELSE IF a = <<>> THEN TRUE
    ELSE IF Head(a) # Head(b) THEN CharCode(Head(a)) < CharCode(Head(b))
    ELSE NameBefore(Tail(a), Tail(b))

Lesson1Typed == <<"L", "e", "s", "s", "o", "n", "1">>
Lesson1 == <<"l", "e", "s", "s", "o", "n", "1">>
Lesson2 == <<"l", "e", "s", "s", "o", "n", "2">>

\* The names a user may type.
NameChars == {"a", "b", "A", "1"}
TypedNames == SeqUpTo(NameChars, MaxNameLen) \cup {Lesson1Typed}

\* The lesson names stored.
KnownPool ==
    {<<"a">>, <<"A">>, <<"b">>, <<"a", "b">>, <<"b", "a">>, <<"a", "1">>,
     <<"b", "1">>, <<"1">>}

\* ORDER BY lesson_name over a set of names.
RECURSIVE OrderedNames(_)
OrderedNames(S) ==
    IF S = {} THEN <<>>
    ELSE LET first == CHOOSE n \in S : \A other \in S \ {n} : NameBefore(n, other)
         IN  <<first>> \o OrderedNames(S \ {first})

\* getAvailableLessons(): SELECT DISTINCT lesson_name ... ORDER BY lesson_name.
AvailableLists ==
    {OrderedNames(S) : S \in {T \in SUBSET KnownPool : Cardinality(T) <= MaxKnown}}
    \cup {<<Lesson1, Lesson2>>}

SuggestIdle ==
    /\ typed = <<>>
    /\ available = <<>>
    /\ suggestions = <<>>
    /\ suggestPc = "idle"

\* suggestLessons(lesson, availableLessons).
SuggestCall ==
    /\ suggestPc = "idle"
    /\ \E input \in TypedNames, known \in AvailableLists :
          /\ typed' = input
          /\ available' = known
          /\ suggestions' = SuggestLessons(input, known)
    /\ suggestPc' = "done"
    /\ UNCHANGED notSuggest

\* The suggestions are printed.
SuggestReturn ==
    /\ suggestPc = "done"
    /\ typed' = <<>>
    /\ available' = <<>>
    /\ suggestions' = <<>>
    /\ suggestPc' = "idle"
    /\ UNCHANGED notSuggest

----------------------------------------------------------------------------
\* Claims about suggestLessons.

\* The edit distance by its definition on the first characters.
RECURSIVE EditDistance(_, _)
EditDistance(a, b) ==
    IF a = <<>> THEN Len(b)
    ELSE IF b = <<>> THEN Len(a)
    ELSE IF Head(a) = Head(b) THEN EditDistance(Tail(a), Tail(b))
    ELSE 1 + Min(Min(EditDistance(Tail(a), b), EditDistance(a, Tail(b))),
                 EditDistance(Tail(a), Tail(b)))

\* The score the claim gives a known name.
ClaimedSimilarity(input, name) ==
    LET a == ToLowerCase(input)
        b == ToLowerCase(name)
    IN  IF a = b THEN [num |-> 1, den |-> 1]
        ELSE IF Includes(a, b) \/ Includes(b, a) THEN [num |-> 19, den |-> 20]
        ELSE [num |-> Max(Len(a), Len(b)) - EditDistance(a, b),
              den |-> Max(Len(a), Len(b))]

\* The known names the claim scores above 0.
PositiveNames == {k \in 1..Len(available) : ClaimedSimilarity(typed, available[k]).num > 0}

\* C16: suggestLessons returns at most 5 names, min(5, number of known names
\* scored above 0) of them, every one a known name scored above 0, no name
\* twice, in descending order of the claimed score (1 on case-insensitive
\* equality, 19/20 on containment, else 1 - levenshtein/max length), no left
\* out name scoring above a returned one; for "Lesson1" and [lesson1, lesson2]
\* the first suggestion is lesson1 with score 1.
C16_Suggestions ==
    suggestPc = "done" =>
        /\ Len(suggestions) <= 5
        /\ Len(suggestions) = Min(5, Cardinality(PositiveNames))
        /\ \A k \in 1..Len(suggestions) :
              \E m \in PositiveNames : available[m] = suggestions[k]
        /\ \A a \in 1..Len(suggestions), b \in 1..Len(suggestions) :
              a < b => /\ suggestions[a] # suggestions[b]
                       /\ ~FracLess(ClaimedSimilarity(typed, suggestions[a]),
                                    ClaimedSimilarity(typed, suggestions[b]))
        /\ \A m \in PositiveNames :
              (\A k \in 1..Len(suggestions) : suggestions[k] # available[m])
              => \A k \in 1..Len(suggestions) :
                    ~FracLess(ClaimedSimilarity(typed, suggestions[k]),
                              ClaimedSimilarity(typed, available[m]))
        /\ (typed = Lesson1Typed /\ available = <<Lesson1, Lesson2>>)
           => /\ suggestions[1] = Lesson1
              /\ ClaimedSimilarity(typed, suggestions[1]) = [num |-> 1, den |-> 1]

\* C16 witness: six known names score above 0 for the typed name "a1" and five
\* are suggested, the case-insensitive match first.
C16_Witness ==
    /\ suggestPc = "done"
    /\ typed = <<"A", "1">>
    /\ Cardinality(PositiveNames) = 6
    /\ Len(suggestions) = 5
    /\ suggestions[1] = <<"a", "1">>

----------------------------------------------------------------------------
\* runCli (cli.ts) and the steps of answerQuestion (search.ts).

RERANK_LIMIT == 30
DefaultTopK == 25

Digits == {"0", "1", "5"}
DigitValue(c) == IF c = "0" THEN 0 ELSE IF c = "1" THEN 1 ELSE 5

RECURSIVE ParseDigits(_, _, _, _)
\* The digits of Number.parseInt from position p on: [nan, n].
ParseDigits(s, p, any, acc) ==
    IF p <= Len(s) /\ s[p] \in Digits
    THEN ParseDigits(s, p + 1, TRUE, 10 * acc + DigitValue(s[p]))
    ELSE [nan |-> ~any, n |-> acc]

\* Number.parseInt(s, 10): an optional sign, then digits up to the first
\* other character; NaN without a digit.
ParseInt(s) ==
    IF s # <<>> /\ s[1] = "-"
    THEN LET r == ParseDigits(s, 2, FALSE, 0) IN [nan |-> r.nan, n |-> 0 - r.n]
    ELSE ParseDigits(s, 1, FALSE, 0)

\* opts.topK ? Number.parseInt(opts.topK, 10) : 25 (an option that is absent or
\* empty is falsy).
TopKOf(option) ==
    IF option = <<>> THEN [nan |-> FALSE, n |-> DefaultTopK] ELSE ParseInt(option)

\* Number.isFinite(topK) && topK > 0 ? topK : 25.
EffectiveTopK(parsed) ==
    IF ~parsed.nan /\ parsed.n > 0 THEN parsed.n ELSE DefaultTopK

RECURSIVE SplitFrom(_, _, _)
\* String.prototype.split(","): piece is the item being read.
SplitFrom(s, p, piece) ==
    IF p > Len(s) THEN <<piece>>
    ELSE IF s[p] = "," THEN <<piece>> \o SplitFrom(s, p + 1, <<>>)
    ELSE SplitFrom(s, p + 1, Append(piece, s[p]))

\* opts.lessons ? opts.lessons.split(",").map((l) => l.trim()) : undefined.
LessonsOf(option) ==
    IF option = <<>> THEN [defined |-> FALSE, names |-> <<>>]
    ELSE LET items == SplitFrom(option, 1, <<>>)
         IN  [defined |-> TRUE, names |-> [k \in 1..Len(items) |-> Trim(items[k])]]

\* The mutant of IsAvailable: a name matches whatever its case.
IsAvailableIgnoringCase(known, name) ==
    \E k \in 1..Len(known) : ToLowerCase(known[k]) = ToLowerCase(name)

\* availableLessons.includes(lesson).
IsAvailable(known, name) == \E k \in 1..Len(known) : known[k] = name

RECURSIVE InvalidFrom(_, _, _)
\* lessons.filter((lesson) => !availableLessons.includes(lesson)).
InvalidFrom(names, index, known) ==
    IF index < Len(names)
    THEN IF IsAvailable(known, names[index + 1])
         THEN InvalidFrom(names, index + 1, known)
         ELSE <<names[index + 1]>> \o InvalidFrom(names, index + 1, known)
    ELSE <<>>

RECURSIVE DidYouMeanFrom(_, _, _)
\* invalid.forEach: one "Did you mean" line per name that has suggestions.
DidYouMeanFrom(invalid, index, known) ==
    IF index < Len(invalid)
    THEN IF SuggestLessons(invalid[index + 1], known) # <<>>
         THEN <<[line |-> "Did you mean", names |-> SuggestLessons(invalid[index + 1], known)]>>
              \o DidYouMeanFrom(invalid, index + 1, known)
         ELSE DidYouMeanFrom(invalid, index + 1, known)
    ELSE <<>>

\* The values of the command line options.
TopKOptions == SeqUpTo(Digits \cup {"-", "x"}, MaxTopKLen)
LessonsOptions == SeqUpTo({"a", "A", "b", ",", " "}, MaxFilterLen)
FlagSets == [ingest : BOOLEAN, ask : BOOLEAN, listLessons : BOOLEAN, apiKey : BOOLEAN]

\* The lesson names the chunks table may hold.
StoredLists == {OrderedNames(S) : S \in SUBSET {<<"a">>, <<"b">>}}

NoFlags == [ingest |-> FALSE, ask |-> FALSE, listLessons |-> FALSE, apiKey |-> FALSE]

CliIdle ==
    /\ cliPc = "idle"
    /\ opts = NoFlags
    /\ storedLessons = <<>>
    /\ topK = [nan |-> FALSE, n |-> 0]
    /\ lessons = [defined |-> FALSE, names |-> <<>>]
    /\ stderr = <<>>
    /\ exitCode = -1
    /\ calls = <<>>
    /\ answerTopK = 0
    /\ fused = <<>>
    /\ reranked = <<>>
    /\ topKChunks = <<>>

\* What the steps of answerQuestion leave alone in runCli, and the reverse.
cliLocals == <<opts, storedLessons, topK, lessons, stderr>>
answerLocals == <<answerTopK, fused, reranked, topKChunks>>

\* bun index.ts with some flags, over a database with some lessons.
CliStart ==
    /\ cliPc = "idle"
    /\ \E flags \in FlagSets, known \in StoredLists :
          /\ opts' = flags
          /\ storedLessons' = known
    /\ cliPc' = "action"
    /\ UNCHANGED <<topK, lessons, stderr, exitCode, calls>>
    /\ UNCHANGED answerLocals
    /\ UNCHANGED notCli

\* if (!hasAction) { program.help(); return; }
CliHelp ==
    /\ cliPc = "action"
    /\ ~(opts.ingest \/ opts.ask \/ opts.listLessons)
    /\ cliPc' = "exited"
    /\ exitCode' = 0
    /\ UNCHANGED <<cliLocals, calls, answerLocals>>
    /\ UNCHANGED notCli

\* if (opts.listLessons) { ...; return; }
CliListLessons ==
    /\ cliPc = "action"
    /\ opts.listLessons
    /\ cliPc' = "exited"
    /\ exitCode' = 0
    /\ UNCHANGED <<cliLocals, calls, answerLocals>>
    /\ UNCHANGED notCli

\* if (!apiKey) { console.error(...); process.exit(1); }
CliNoApiKey ==
    /\ cliPc = "action"
    /\ opts.ingest \/ opts.ask
    /\ ~opts.listLessons
    /\ ~opts.apiKey
    /\ stderr' = Append(stderr, [line |-> "AI_GATEWAY_API_KEY is required", names |-> <<>>])
    /\ cliPc' = "exited"
    /\ exitCode' = 1
    /\ UNCHANGED <<opts, storedLessons, topK, lessons, calls, answerLocals>>
    /\ UNCHANGED notCli

\* if (opts.ingest) await runIngest(...): the lessons stored afterwards are
\* those of the transcripts directory.
CliIngest ==
    /\ cliPc = "action"
    /\ ~opts.listLessons /\ opts.apiKey
    /\ opts.ingest
    /\ calls' = Append(calls, [fn |-> "runIngest", lessons |-> <<>>])
    /\ \E known \in StoredLists : storedLessons' = known
    /\ cliPc' = "ask"
    /\ UNCHANGED <<opts, topK, lessons, stderr, exitCode, answerLocals>>
    /\ UNCHANGED notCli

\* Without --ingest the ask comes next.
CliNoIngest ==
    /\ cliPc = "action"
    /\ ~opts.listLessons /\ opts.apiKey
    /\ ~opts.ingest /\ opts.ask
    /\ cliPc' = "ask"
    /\ UNCHANGED <<cliLocals, exitCode, calls, answerLocals>>
    /\ UNCHANGED notCli

\* Without --ask the invocation is over.
CliNoAsk ==
    /\ cliPc = "ask"
    /\ ~opts.ask
    /\ cliPc' = "exited"
    /\ exitCode' = 0
    /\ UNCHANGED <<cliLocals, calls, answerLocals>>
    /\ UNCHANGED notCli

\* if (opts.ask): topK and lessons are read from the options.
CliAsk ==
    /\ cliPc = "ask"
    /\ opts.ask
    /\ \E topKOption \in TopKOptions, lessonsOption \in LessonsOptions :
          /\ topK' = TopKOf(topKOption)
          /\ lessons' = LessonsOf(lessonsOption)
          /\ cliPc' = IF LessonsOf(lessonsOption).defined
                         /\ Len(LessonsOf(lessonsOption).names) > 0
                      THEN "validate" ELSE "answer"
    /\ UNCHANGED <<opts, storedLessons, stderr, exitCode, calls, answerLocals>>
    /\ UNCHANGED notCli

\* availableLessons.length === 0: "No lessons found. Run --ingest first."
CliNoLessons ==
    /\ cliPc = "validate"
    /\ Len(storedLessons) = 0
    /\ stderr' = Append(stderr, [line |-> "No lessons found", names |-> <<>>])
    /\ cliPc' = "exited"
    /\ exitCode' = 1
    /\ UNCHANGED <<opts, storedLessons, topK, lessons, calls, answerLocals>>
    /\ UNCHANGED notCli

\* invalid.length > 0: the unknown names, the suggestions, process.exit(1).
CliUnknownLessons ==
    /\ cliPc = "validate"
    /\ Len(storedLessons) # 0
    /\ InvalidFrom(lessons.names, 0, storedLessons) # <<>>
    /\ stderr' = stderr
          \o <<[line |-> "Unknown lesson(s)",
                names |-> InvalidFrom(lessons.names, 0, storedLessons)]>>
          \o DidYouMeanFrom(InvalidFrom(lessons.names, 0, storedLessons), 0, storedLessons)
    /\ cliPc' = "exited"
    /\ exitCode' = 1
    /\ UNCHANGED <<opts, storedLessons, topK, lessons, calls, answerLocals>>
    /\ UNCHANGED notCli

\* Every name of the filter is known.
CliLessonsKnown ==
    /\ cliPc = "validate"
    /\ Len(storedLessons) # 0
    /\ InvalidFrom(lessons.names, 0, storedLessons) = <<>>
    /\ cliPc' = "answer"
    /\ UNCHANGED <<cliLocals, exitCode, calls, answerLocals>>
    /\ UNCHANGED notCli

\* The lessons argument of a search call: the filter, or none.
LessonsArgument == IF lessons.defined THEN lessons.names ELSE <<>>

\* answerQuestion({question, topK, lessons}): initDb and embedText(question).
AnswerEmbed ==
    /\ cliPc = "answer"
    /\ answerTopK' = EffectiveTopK(topK)
    /\ calls' = Append(calls, [fn |-> "embedText", lessons |-> <<>>])
    /\ cliPc' = "vector"
    /\ UNCHANGED <<cliLocals, exitCode, fused, reranked, topKChunks>>
    /\ UNCHANGED notCli

\* queryVectorSimilar(queryEmbedding, VECTOR_RETRIEVAL_LIMIT, options.lessons).
AnswerVector ==
    /\ cliPc = "vector"
    /\ calls' = Append(calls, [fn |-> "queryVectorSimilar", lessons |-> LessonsArgument])
    /\ cliPc' = "bm25"
    /\ UNCHANGED <<cliLocals, exitCode, answerLocals>>
    /\ UNCHANGED notCli

\* queryBm25(question, BM25_RETRIEVAL_LIMIT, options.lessons) and rrfCombine:
\* some number of fused candidates.
AnswerBm25 ==
    /\ cliPc = "bm25"
    /\ calls' = Append(calls, [fn |-> "queryBm25", lessons |-> LessonsArgument])
    /\ \E count \in 0..MaxFused : fused' = [k \in 1..count |-> k]
    /\ cliPc' = "fused"
    /\ UNCHANGED <<cliLocals, exitCode, answerTopK, reranked, topKChunks>>
    /\ UNCHANGED notCli

\* if (combined.length === 0) { console.log("No matches found."); return; }
AnswerNoMatches ==
    /\ cliPc = "fused"
    /\ Len(fused) = 0
    /\ cliPc' = "exited"
    /\ exitCode' = 0
    /\ UNCHANGED <<cliLocals, calls, answerLocals>>
    /\ UNCHANGED notCli

\* A list in reverse.
Reverse(list) == [k \in 1..Len(list) |-> list[Len(list) + 1 - k]]

\* candidates = combined.slice(0, RERANK_LIMIT); reranked = await
\* rerankChunks(question, candidates): the candidates in some order.
AnswerRerank ==
    /\ cliPc = "fused"
    /\ Len(fused) # 0
    /\ calls' = Append(calls, [fn |-> "rerankChunks", lessons |-> <<>>])
    /\ \E order \in {SliceTo(fused, RERANK_LIMIT), Reverse(SliceTo(fused, RERANK_LIMIT))} :
          reranked' = order
    /\ cliPc' = "reranked"
    /\ UNCHANGED <<cliLocals, exitCode, answerTopK, fused, topKChunks>>
    /\ UNCHANGED notCli

\* topK = reranked.slice(0, options.topK); expandNeighbors(topK, NEIGHBOR_WINDOW).
AnswerTopK ==
    /\ cliPc = "reranked"
    /\ topKChunks' = SliceTo(reranked, answerTopK)
    /\ cliPc' = "expanded"
    /\ UNCHANGED <<cliLocals, exitCode, calls, answerTopK, fused, reranked>>
    /\ UNCHANGED notCli

\* buildPrompt, generateText, the answer and the sources are printed.
AnswerGenerate ==
    /\ cliPc = "expanded"
    /\ calls' = Append(calls, [fn |-> "generateText", lessons |-> <<>>])
    /\ cliPc' = "exited"
    /\ exitCode' = 0
    /\ UNCHANGED <<cliLocals, answerLocals>>
    /\ UNCHANGED notCli

----------------------------------------------------------------------------
\* Claims about runCli and answerQuestion.

\* The calls of the question pipeline: embedding of the question, vector
\* search, lexical search, rerank, generation.
AskPipeline == {"embedText", "queryVectorSimilar", "queryBm25", "rerankChunks", "generateText"}

\* A name of the filter that is not a stored lesson name.
NotStored(name) == \A k \in 1..Len(storedLessons) : storedLessons[k] # name

\* The names of the filter that are not stored, in the order typed.
UnknownNames == SelectSeq(lessons.names, NotStored)

HasSuggestions(entry) == entry.names # <<>>

\* One "Did you mean" line for every unknown name that has suggestions.
SuggestionLines ==
    SelectSeq([k \in 1..Len(UnknownNames) |->
                  [line |-> "Did you mean",
                   names |-> SuggestLessons(UnknownNames[k], storedLessons)]],
              HasSuggestions)

C17_SelectionSize ==
    cliPc = "expanded" =>
        /\ answerTopK >= 1
        /\ Len(topKChunks) = Min(answerTopK, Len(fused))

----------------------------------------------------------------------------
\* queryVectorSimilar (db.ts).

\* The mutant of CandidateLimit: no over-fetch.
CandidateLimitPlain(n) == n

\* const candidateLimit = limit * 10.
CandidateLimit(n) == n * 10

\* The vector tables: the rows in the order of their distance to the query,
\* each of some lesson, with distances all different or equal in pairs.
Corpora ==
    {[k \in 1..Len(names) |->
         [id |-> k, lessonName |-> names[k],
          distance |-> IF paired THEN (k + 1) \div 2 ELSE k]] :
        names \in SeqUpTo(Lessons, MaxCorpus), paired \in BOOLEAN}

\* embedding MATCH ? AND k = ?: the sets of rows a nearest-neighbour search for
\* k rows may deliver (rows at the distance of the k-th are interchangeable).
Nearest(rows, k) ==
    IF Len(rows) <= k THEN {{rows[p] : p \in 1..Len(rows)}}
    ELSE LET edge == rows[k].distance
             nearer == {rows[p] : p \in {q \in 1..Len(rows) : rows[q].distance < edge}}
             atEdge == {rows[p] : p \in {q \in 1..Len(rows) : rows[q].distance = edge}}
         IN  {nearer \cup some :
                 some \in {T \in SUBSET atEdge : Cardinality(T) = k - Cardinality(nearer)}}

RECURSIVE OrderByDistanceLimit(_, _)
\* ORDER BY distance LIMIT n over a set of rows: the lists it may deliver (a
\* nearest row first, any of them when several are equally near).
OrderByDistanceLimit(S, n) ==
    IF n = 0 \/ S = {} THEN {<<>>}
    ELSE UNION {{<<r>> \o rest : rest \in OrderByDistanceLimit(S \ {r}, n - 1)} :
                   r \in {x \in S : \A y \in S : x.distance <= y.distance}}

\* The rows of the filtered statement: k = candidateLimit, lesson_name IN
\* (...), ORDER BY distance LIMIT limit.
FilteredRows(rows, n, names) ==
    UNION {OrderByDistanceLimit(
               {r \in found : \E k \in 1..Len(names) : names[k] = r.lessonName}, n) :
           found \in Nearest(rows, CandidateLimit(n))}

\* The rows of the plain statement: k = limit, ORDER BY distance LIMIT limit.
PlainRows(rows, n) ==
    UNION {OrderByDistanceLimit(found, n) : found \in Nearest(rows, n)}

\* The lessonNames arguments: none, an empty list, one lesson, both.
LessonFilters ==
    {[defined |-> FALSE, names |-> <<>>], [defined |-> TRUE, names |-> <<>>],
     [defined |-> TRUE, names |-> <<"a">>], [defined |-> TRUE, names |-> <<"b">>],
     [defined |-> TRUE, names |-> <<"a", "b">>]}

VecIdle ==
    /\ corpus = <<>>
    /\ queryLength = 0
    /\ limit = 0
    /\ lessonNames = [defined |-> FALSE, names |-> <<>>]
    /\ vecResult = [kind |-> "none", rows |-> <<>>]
    /\ vecPc = "idle"

\* queryVectorSimilar with an embedding of another length: it throws.
QueryVectorThrows ==
    /\ vecPc = "idle"
    /\ \E rows \in Corpora, n \in 1..MaxLimit, names \in LessonFilters :
          /\ corpus' = rows
          /\ limit' = n
          /\ lessonNames' = names
    /\ queryLength' = EMBEDDING_DIMENSIONS - 1
    /\ vecResult' = [kind |-> "thrown", rows |-> <<>>]
    /\ vecPc' = "done"
    /\ UNCHANGED notVec

\* queryVectorSimilar(embedding, limit, lessonNames) with a filter.
QueryVectorFiltered ==
    /\ vecPc = "idle"
    /\ \E rows \in Corpora, n \in 1..MaxLimit, names \in LessonFilters :
          /\ names.defined /\ Len(names.names) > 0
          /\ corpus' = rows
          /\ limit' = n
          /\ lessonNames' = names
          /\ \E result \in FilteredRows(rows, n, names.names) :
                vecResult' = [kind |-> "returned", rows |-> result]
    /\ queryLength' = EMBEDDING_DIMENSIONS
    /\ vecPc' = "done"
    /\ UNCHANGED notVec

\* queryVectorSimilar(embedding, limit, lessonNames) without a filter.
QueryVectorPlain ==
    /\ vecPc = "idle"
    /\ \E rows \in Corpora, n \in 1..MaxLimit, names \in LessonFilters :
          /\ ~(names.defined /\ Len(names.names) > 0)
          /\ corpus' = rows
          /\ limit' = n
          /\ lessonNames' = names
          /\ \E result \in PlainRows(rows, n) :
                vecResult' = [kind |-> "returned", rows |-> result]
    /\ queryLength' = EMBEDDING_DIMENSIONS
    /\ vecPc' = "done"
    /\ UNCHANGED notVec

\* The rows are handed to rrfCombine.
QueryVectorReturn ==
    /\ vecPc = "done"
    /\ corpus' = <<>>
    /\ queryLength' = 0
    /\ limit' = 0
    /\ lessonNames' = [defined |-> FALSE, names |-> <<>>]
    /\ vecResult' = [kind |-> "none", rows |-> <<>>]
    /\ vecPc' = "idle"
    /\ UNCHANGED notVec

----------------------------------------------------------------------------
\* Claims about queryVectorSimilar.

\* The rows of the corpus.
CorpusRows == {corpus[p] : p \in 1..Len(corpus)}

\* The lesson of the row is one of the filter.
Allowed(r) == \E k \in 1..Len(lessonNames.names) : lessonNames.names[k] = r.lessonName

\* The row is outside the 10 * limit nearest: that many rows are nearer.
OutsideNearest(r) ==
    Cardinality({o \in CorpusRows : o.distance < r.distance}) >= 10 * limit

\* The row is among the 10 * limit nearest whichever way ties are cut.
InsideNearest(r) ==
    Cardinality({o \in CorpusRows : o.distance <= r.distance}) <= 10 * limit

\* C18: with a non-empty lesson filter and limit L the result holds only chunks
\* of allowed lessons, at most L, each once, in ascending distance, none from
\* outside the 10 * L nearest chunks of the corpus; it holds L chunks or every
\* allowed chunk among the 10 * L nearest, and never a farther chunk in place
\* of a nearer allowed one among them.
C18_FilteredVectorSearch ==
    (/\ vecPc = "done" /\ vecResult.kind = "returned"
     /\ lessonNames.defined /\ Len(lessonNames.names) > 0)
    => LET rows == vecResult.rows
           got  == {rows[p] : p \in 1..Len(rows)}
       IN  /\ Len(rows) <= limit
           /\ got \subseteq CorpusRows
           /\ Cardinality(got) = Len(rows)
           /\ \A r \in got : Allowed(r) /\ ~OutsideNearest(r)
           /\ \A a \in 1..Len(rows), b \in 1..Len(rows) :
                 a < b => rows[a].distance <= rows[b].distance
           /\ Len(rows) >= Min(limit,
                 Cardinality({r \in CorpusRows : Allowed(r) /\ InsideNearest(r)}))
           /\ \A r \in CorpusRows :
                 (Allowed(r) /\ InsideNearest(r) /\ r \notin got)
                 => \A o \in got : o.distance <= r.distance

\* C18 witness: limit 1 over eleven chunks of which only the farthest is of
\* the allowed lesson: it lies outside the 10 nearest and nothing is returned.
C18_Witness ==
    /\ vecPc = "done" /\ vecResult = [kind |-> "returned", rows |-> <<>>]
    /\ limit = 1
    /\ lessonNames = [defined |-> TRUE, names |-> <<"b">>]
    /\ Len(corpus) = 11
    /\ \A p \in 1..11 : corpus[p].lessonName = IF p <= 10 THEN "a" ELSE "b"
    /\ \A p \in 1..11 : corpus[p].distance = p

----------------------------------------------------------------------------
\* parseSrt (srt.ts) on the lines of a file.

\* An empty line.
BlankLine == TextLine(<<>>)

RECURSIVE SplitBlocksFrom(_, _, _)
\* content.split(/\r?\n\r?\n/) and block.split(/\r?\n/).filter(Boolean): the
\* runs of non-empty lines; `block` is the run being read.  Two separators in
\* a row give an empty block.
SplitBlocksFrom(lines, p, block) ==
    IF p > Len(lines) THEN <<block>>
    ELSE IF lines[p] = BlankLine
    THEN <<block>> \o SplitBlocksFrom(lines, p + 1, <<>>)
    ELSE SplitBlocksFrom(lines, p + 1, Append(block, lines[p]))

SplitBlocks(lines) == SplitBlocksFrom(lines, 1, <<>>)

\* The lines of the contents examined: two timecode lines, two lines of text
\* (a sequence number is one), a line of white space, an empty line.
LineKinds ==
    {TimeLine(0, 40), TimeLine(50, 60), TextLine(<<"1">>), TextLine(<<"a">>),
     TextLine(<<" ">>), BlankLine}

\* Blocks: two with sequence number, timecode and text; one without sequence
\* number; one of a single line; one without timecode; one with blank text.
BlockPool ==
    {<<TextLine(<<"1">>), TimeLine(0, 40), TextLine(<<"a">>)>>,
     <<TextLine(<<"1">>), TimeLine(50, 60), TextLine(<<"a">>), TextLine(<<"1">>)>>,
     <<TimeLine(0, 40), TextLine(<<"a">>), TextLine(<<"1">>)>>,
     <<TextLine(<<"a">>)>>,
     <<TextLine(<<"1">>), TextLine(<<"a">>), TextLine(<<"a">>)>>,
     <<TextLine(<<"1">>), TimeLine(0, 40), TextLine(<<" ">>)>>}

RECURSIVE JoinBlocks(_)
\* The lines of a content whose blocks are separated by one empty line.
JoinBlocks(blocks) ==
    IF blocks = <<>> THEN <<>>
    ELSE IF Len(blocks) = 1 THEN blocks[1]
    ELSE blocks[1] \o <<BlankLine>> \o JoinBlocks(Tail(blocks))

Contents ==
    SeqUpTo(LineKinds, MaxLines)
    \cup {JoinBlocks(blocks) : blocks \in SeqUpTo(BlockPool, MaxBlocks)}

ParseIdle ==
    /\ content = <<>>
    /\ parseResult = [kind |-> "none", entries |-> <<>>]
    /\ parsePc = "idle"

\* parseSrt(content): no statement of it throws.
ParseCall ==
    /\ parsePc = "idle"
    /\ \E lines \in Contents :
          /\ content' = lines
          /\ parseResult' = [kind |-> "returned", entries |-> ParseSrt(SplitBlocks(lines))]
    /\ parsePc' = "done"
    /\ UNCHANGED notParse

\* The entries are handed to normalizeEntries.
ParseReturn ==
    /\ parsePc = "done"
    /\ content' = <<>>
    /\ parseResult' = [kind |-> "none", entries |-> <<>>]
    /\ parsePc' = "idle"
    /\ UNCHANGED notParse

----------------------------------------------------------------------------
\* Claims about parseSrt.

\* The texts of the lines from position p on, joined by spaces and trimmed.
JoinedText(lines, p) ==
    Trim(JoinSpace([k \in 1..(Len(lines) - p + 1) |-> lines[p + k - 1].text]))

\* The content is one block: a timecode line, then one or more lines of text.
TimecodeFirstBlock ==
    /\ Len(content) >= 2
    /\ content[1].time
    /\ \A p \in 2..Len(content) : ~content[p].time /\ Trim(content[p].text) # <<>>

\* C19: the sequence-number line is optional: a block whose first line is a
\* timecode line followed by one or more non-empty text lines yields one entry
\* with the times of that line and all of the text lines joined by spaces, as
\* the same block behind a sequence-number line does.
C19_SequenceNumberOptional ==
    (parsePc = "done" /\ TimecodeFirstBlock)
    => /\ parseResult.entries = <<[startSeconds |-> content[1].startSeconds,
                              endSeconds   |-> content[1].endSeconds,
                              text         |-> JoinedText(content, 2)]>>
       /\ parseResult.entries = ParseSrt(<< <<TextLine(<<"1">>)>> \o content >>)

\* The block yields no entry by the rules of the format: fewer than two lines,
\* no timecode on the first or second line, or only white space behind the
\* timecode line.
Malformed(block) ==
    \/ Len(block) < 2
    \/ ~block[1].time /\ ~block[2].time
    \/ JoinedText(block, IF block[1].time THEN 2 ELSE 3) = <<>>

RECURSIVE EntriesInOrder(_)
\* The entries of the blocks, each block taken on its own, in block order.
EntriesInOrder(blocks) ==
    IF blocks = <<>> THEN <<>>
    ELSE ParseBlock(Head(blocks)) \o EntriesInOrder(Tail(blocks))

\* C20: parseSrt returns for every content; a malformed block contributes no
\* entry, and the entries returned are those of the blocks taken one by one,
\* in block order, whatever blocks stand between them.
C20_LenientParse ==
    parsePc = "done" =>
        /\ parseResult.kind = "returned"
        /\ \A k \in 1..Len(SplitBlocks(content)) :
              Malformed(SplitBlocks(content)[k]) => ParseBlock(SplitBlocks(content)[k]) = <<>>
        /\ parseResult.entries = EntriesInOrder(SplitBlocks(content))
        /\ Len(parseResult.entries) <= Len(SplitBlocks(content))

\* C20 witness: a one-line block between two well-formed blocks: two entries,
\* the one of 0-40 s before the one of 50-60 s.
C20_Witness ==
    /\ parsePc = "done"
    /\ Len(SplitBlocks(content)) = 3
    /\ SplitBlocks(content)[2] = <<TextLine(<<"a">>)>>
    /\ parseResult.kind = "returned"
    /\ Len(parseResult.entries) = 2
    /\ parseResult.entries[1].startSeconds = 0
    /\ parseResult.entries[2].startSeconds = 50

----------------------------------------------------------------------------
\* normalizeEntries (srt.ts) on the entries of a file.

\* The texts of the entries examined: two that differ in case only, a third
\* one, a bracketed cue (empty once cleaned), a text behind a speaker marker.
SubtitleTexts ==
    {<<"a">>, <<"A">>, <<"b">>, <<"[", "a", "]">>, <<">", ">", "a">>}

\* The entries examined; the start tells two entries of one text apart.
Subtitles == [startSeconds : {0, 5}, endSeconds : {40}, text : SubtitleTexts]

NormIdle ==
    /\ subtitles = <<>>
    /\ normResult = <<>>
    /\ normPc = "idle"

\* normalizeEntries(entries).
NormCall ==
    /\ normPc = "idle"
    /\ \E es \in SeqUpTo(Subtitles, MaxSubtitles) :
          /\ subtitles' = es
          /\ normResult' = NormalizeEntries(es)
    /\ normPc' = "done"
    /\ UNCHANGED notNorm

\* The entries are handed to aggregateEntries.
NormReturn ==
    /\ normPc = "done"
    /\ subtitles' = <<>>
    /\ normResult' = <<>>
    /\ normPc' = "idle"
    /\ UNCHANGED notNorm

----------------------------------------------------------------------------
\* Claims about normalizeEntries.

\* The case-folded normalized text of the entry at position k of the input.
Folded(k) == ToLowerCase(NormalizeText(subtitles[k].text))

\* K is the set of the positions kept: a position is kept exactly when its
\* normalized text is non-empty and differs, case-folded, from the one of the
\* last position kept before it.
IsKept(K) ==
    \A k \in 1..Len(subtitles) :
        k \in K <=>
            /\ NormalizeText(subtitles[k].text) # <<>>
            /\ \A j \in K :
                  (j < k /\ \A m \in K : m < k => m <= j) => Folded(j) # Folded(k)

\* The k-th smallest element of the set K of positions.
Nth(K, k) == CHOOSE p \in K : Cardinality({q \in K : q <= p}) = k

\* C21: normalizeEntries returns, in input order, exactly the entries whose
\* normalized text is non-empty and differs, case-folded, from the one of the
\* entry kept last, each with its own timestamps and its normalized text; no
\* two neighbours of the result have the same case-folded text.
C21_ConsecutiveDuplicates ==
    normPc = "done" =>
        /\ \E K \in SUBSET (1..Len(subtitles)) :
              /\ IsKept(K)
              /\ Len(normResult) = Cardinality(K)
              /\ \A k \in 1..Len(normResult) :
                    normResult[k] =
                        [startSeconds |-> subtitles[Nth(K, k)].startSeconds,
                         endSeconds   |-> subtitles[Nth(K, k)].endSeconds,
                         text         |-> NormalizeText(subtitles[Nth(K, k)].text)]
        /\ \A k \in 1..(Len(normResult) - 1) :
              ToLowerCase(normResult[k].text) # ToLowerCase(normResult[k + 1].text)

\* C21 witness: a, A, b, a: the second entry repeats the first and is dropped,
\* the fourth repeats it behind b and is kept, with its own start.
C21_Witness ==
    /\ normPc = "done"
    /\ [k \in 1..Len(subtitles) |-> subtitles[k].text] = << <<"a">>, <<"A">>, <<"b">>, <<"a">> >>
    /\ [k \in 1..Len(subtitles) |-> subtitles[k].startSeconds] = <<0, 5, 0, 5>>
    /\ [k \in 1..Len(normResult) |-> normResult[k].text] = << <<"a">>, <<"b">>, <<"a">> >>
    /\ [k \in 1..Len(normResult) |-> normResult[k].startSeconds] = <<0, 0, 5>>

----------------------------------------------------------------------------
\* runIngest (ingest.ts) from the content of one file to its chunks:
\* parseSrt, normalizeEntries, aggregateEntries(normalizedEntries, 45, 10).

\* A block of sequence number, timecode and one line of text.
SrtBlock(from, to, text) == <<TextLine(<<"1">>), TimeLine(from, to), TextLine(text)>>

\* The blocks of the files examined.  TIMECODE_REGEX matches any two
\* timestamps, so a block whose end precedes its start is among them.
FileBlocks ==
    {SrtBlock(0, 40, <<"a">>), SrtBlock(50, 60, <<"a">>), SrtBlock(5, 50, <<"b">>),
     SrtBlock(50, 40, <<"a">>), SrtBlock(35, 60, <<"[", "a", "]">>)}

FileContents == {JoinBlocks(blocks) : blocks \in SeqUpTo(FileBlocks, MaxBlocks)}

ChunkIdle ==
    /\ fileContent = <<>>
    /\ fileEntries = <<>>
    /\ normalizedEntries = <<>>
    /\ fileChunks = <<>>
    /\ chunkPc = "idle"

\* const content = await file.text(); const entries = parseSrt(content).
FileParse ==
    /\ chunkPc = "idle"
    /\ \E lines \in FileContents :
          /\ fileContent' = lines
          /\ fileEntries' = ParseSrt(SplitBlocks(lines))
    /\ chunkPc' = "parsed"
    /\ UNCHANGED <<normalizedEntries, fileChunks>>
    /\ UNCHANGED notChunk

\* if (entries.length === 0) continue.
FileNoEntries ==
    /\ chunkPc = "parsed"
    /\ Len(fileEntries) = 0
    /\ fileContent' = <<>>
    /\ fileEntries' = <<>>
    /\ chunkPc' = "idle"
    /\ UNCHANGED <<normalizedEntries, fileChunks>>
    /\ UNCHANGED notChunk

\* normalizeEntries(entries) and aggregateEntries(normalizedEntries, 45, 10).
FileAggregate ==
    /\ chunkPc = "parsed"
    /\ Len(fileEntries) # 0
    /\ normalizedEntries' = NormalizeEntries(fileEntries)
    /\ fileChunks' = AggregateEntries(NormalizeEntries(fileEntries), 45, 10)
    /\ chunkPc' = "chunked"
    /\ UNCHANGED <<fileContent, fileEntries>>
    /\ UNCHANGED notChunk

\* The chunks are embedded and stored, or there are none; the next file.
FileDone ==
    /\ chunkPc = "chunked"
    /\ fileContent' = <<>>
    /\ fileEntries' = <<>>
    /\ normalizedEntries' = <<>>
    /\ fileChunks' = <<>>
    /\ chunkPc' = "idle"
    /\ UNCHANGED notChunk

----------------------------------------------------------------------------
\* Claims about the entries and chunks of a file.

\* C22: every entry parseSrt produces and every chunk aggregateEntries
\* produces from the parsed and normalized entries ends no earlier than it
\* starts, whatever the content of the file.
C22_EndNotBeforeStart ==
    /\ \A k \in 1..Len(fileEntries) :
          fileEntries[k].endSeconds >= fileEntries[k].startSeconds
    /\ \A k \in 1..Len(fileChunks) :
          fileChunks[k].endSeconds >= fileChunks[k].startSeconds

----------------------------------------------------------------------------
\* initDb (db.ts) against the database file a process finds.

\* The mutant of SchemaDiffers: only a database of an older release is cleared.
SchemaOlder(version) == version < SCHEMA_VERSION

\* if (currentVersion !== SCHEMA_VERSION).
SchemaDiffers(version) == version # SCHEMA_VERSION

\* PRAGMA user_version of the database files examined: 0 is a new file, the
\* others were written by a release of that schema version.
UserVersions == 0..(SCHEMA_VERSION + 1)

\* The rows a release may have left, interrupted writes included.
StoredChunkRows == {[id |-> 1, lesson_name |-> "a", chunk_index |-> 0],
                    [id |-> 2, lesson_name |-> "b", chunk_index |-> 0]}
StoredFtsRows == {[chunk_id |-> 1, lesson_name |-> "a"], [chunk_id |-> 2, lesson_name |-> "b"]}
StoredVecRows == {1, 2}
StoredFingerprints == {[filename |-> "a", mtime |-> 1, size |-> 1],
                       [filename |-> "b", mtime |-> 1, size |-> 1]}

SchemaIdle ==
    /\ initialized = FALSE
    /\ dbOpen = FALSE
    /\ initCalls = 0
    /\ currentVersion = 0
    /\ dropped = 0
    /\ schemaPc = "idle"

\* No process runs: the database file is the one a release of some schema
\* version left, a new file having no table.
StoreLeft ==
    /\ schemaPc = "idle"
    /\ \E v \in UserVersions \ {0} :
          /\ userVersion' = v
          /\ chunksTable' \in SUBSET StoredChunkRows
          /\ chunksFts' \in SUBSET StoredFtsRows
          /\ vecChunks' \in SUBSET StoredVecRows
          /\ processedFiles' \in SUBSET StoredFingerprints
    /\ UNCHANGED files
    /\ UNCHANGED schemaVars
    /\ UNCHANGED notSchemaDb

\* A process starts: `let db = null; let initialized = false`.
ProcessStart ==
    /\ schemaPc = "idle"
    /\ schemaPc' = "running"
    /\ initialized' = FALSE
    /\ dbOpen' = FALSE
    /\ initCalls' = 0
    /\ currentVersion' = 0
    /\ dropped' = 0
    /\ UNCHANGED dbVars
    /\ UNCHANGED notSchemaDb

\* initDb() past `if (initialized && db) return db`: the database is opened,
\* a database of another schema version is dropped and created anew.
InitDbFirst ==
    /\ schemaPc = "running"
    /\ ~(initialized /\ dbOpen)
    /\ initCalls < MaxInitCalls
    /\ dbOpen' = TRUE
    /\ currentVersion' = userVersion
    /\ dropped' = IF SchemaDiffers(userVersion)
                  THEN Cardinality(chunksFts) + Cardinality(vecChunks)
                       + Cardinality(chunksTable) + Cardinality(processedFiles)
                  ELSE 0
    /\ IF SchemaDiffers(userVersion)
       THEN /\ chunksFts' = {}
            /\ vecChunks' = {}
            /\ chunksTable' = {}
            /\ processedFiles' = {}
            /\ userVersion' = SCHEMA_VERSION
       ELSE UNCHANGED <<userVersion, chunksTable, chunksFts, vecChunks, processedFiles>>
    /\ initialized' = TRUE
    /\ initCalls' = initCalls + 1
    /\ UNCHANGED <<files, schemaPc>>
    /\ UNCHANGED notSchemaDb

\* initDb() when sqliteVec.load throws: the database is open, nothing else is
\* done and `initialized` stays false.
InitDbThrows ==
    /\ schemaPc = "running"
    /\ ~(initialized /\ dbOpen)
    /\ dbOpen' = TRUE
    /\ UNCHANGED <<initialized, initCalls, currentVersion, dropped, schemaPc>>
    /\ UNCHANGED dbVars
    /\ UNCHANGED notSchemaDb

\* initDb() when `initialized && db`: the open database is returned.
InitDbAgain ==
    /\ schemaPc = "running"
    /\ initialized /\ dbOpen
    /\ initCalls < MaxInitCalls
    /\ initCalls' = initCalls + 1
    /\ UNCHANGED <<initialized, dbOpen, currentVersion, dropped, schemaPc>>
    /\ UNCHANGED dbVars
    /\ UNCHANGED notSchemaDb

\* Between two calls of initDb the process inserts and deletes rows.
ProcessWrites ==
    /\ schemaPc = "running"
    /\ initialized /\ dbOpen
    /\ chunksTable' \in SUBSET StoredChunkRows
    /\ chunksFts' \in SUBSET StoredFtsRows
    /\ vecChunks' \in SUBSET StoredVecRows
    /\ processedFiles' \in SUBSET StoredFingerprints
    /\ UNCHANGED <<files, userVersion>>
    /\ UNCHANGED schemaVars
    /\ UNCHANGED notSchemaDb

\* The process ends.
ProcessExit ==
    /\ schemaPc = "running"
    /\ schemaPc' = "idle"
    /\ initialized' = FALSE
    /\ dbOpen' = FALSE
    /\ initCalls' = 0
    /\ currentVersion' = 0
    /\ dropped' = 0
    /\ UNCHANGED dbVars
    /\ UNCHANGED notSchemaDb

----------------------------------------------------------------------------
\* Claims about initDb.

\* No chunk, vector, lexical-index row or fingerprint is stored.
StoreEmpty ==
    /\ chunksTable = {}
    /\ chunksFts = {}
    /\ vecChunks = {}
    /\ processedFiles = {}

\* C23: a call of initDb that finds another schema version than the current
\* one leaves no chunk, vector, lexical-index row or fingerprint and sets the
\* version to the current one; a call that finds the current version leaves
\* every row as it was, and so does every further call in the same process.
C23_SchemaChangeClears ==
    [][initCalls' = initCalls + 1 =>
          /\ (initCalls = 0 /\ userVersion # SCHEMA_VERSION)
                => (StoreEmpty' /\ userVersion' = SCHEMA_VERSION)
          /\ (initCalls = 0 /\ userVersion = SCHEMA_VERSION) => UNCHANGED dbVars
          /\ initCalls >= 1 => UNCHANGED dbVars]_vars

\* C23 witness: the process found a database of a later schema version with
\* all eight rows and cleared it, wrote rows, and a second call of initDb has
\* returned with the rows in place.
C23_Witness ==
    /\ schemaPc = "running"
    /\ initCalls = 2
    /\ currentVersion = SCHEMA_VERSION + 1
    /\ dropped = 8
    /\ userVersion = SCHEMA_VERSION
    /\ chunksTable = StoredChunkRows
    /\ vecChunks = StoredVecRows
    /\ chunksFts = StoredFtsRows
    /\ processedFiles = StoredFingerprints

----------------------------------------------------------------------------
\* answerQuestion (search.ts) from the two searches to the context: the
\* store is one a completed ingestion left.

VECTOR_RETRIEVAL_LIMIT == 50
BM25_RETRIEVAL_LIMIT == 50

\* The mutant of FilterByLesson: the statement without its IN clause.
FilterByLessonNone(rows, names) == rows

\* AND c.lesson_name IN (...) of the filtered statements of queryVectorSimilar
\* and queryBm25.
FilterByLesson(rows, names) ==
    {r \in rows : \E k \in 1..Len(names) : names[k] = r.lessonName}

\* The lists without repetition of at most n rows of S: what ORDER BY ... LIMIT n
\* may deliver of the rows a MATCH finds among S, the question being free.
MatchListsOf(S, n) ==
    {list \in SeqUpTo(S, Min(Cardinality(S), n)) :
        \A a \in 1..Len(list), b \in 1..Len(list) : a # b => list[a] # list[b]}

\* queryVectorSimilar(queryEmbedding, VECTOR_RETRIEVAL_LIMIT, options.lessons).
VectorMatchesOf(option) ==
    LET joined == {AsRetrieved(r) : r \in {c \in chunksTable : c.id \in vecChunks}}
    IN  IF option.defined /\ Len(option.names) > 0
        THEN MatchListsOf(FilterByLesson(joined, option.names), VECTOR_RETRIEVAL_LIMIT)
        ELSE MatchListsOf(joined, VECTOR_RETRIEVAL_LIMIT)

\* queryBm25(options.question, BM25_RETRIEVAL_LIMIT, options.lessons).
Bm25MatchesOf(option) ==
    LET joined == {AsRetrieved(r) :
                      r \in {c \in chunksTable : \E f \in chunksFts : f.chunk_id = c.id}}
    IN  IF option.defined /\ Len(option.names) > 0
        THEN MatchListsOf(FilterByLesson(joined, option.names), BM25_RETRIEVAL_LIMIT)
        ELSE MatchListsOf(joined, BM25_RETRIEVAL_LIMIT)

\* rrfCombine on RetrievedChunks.
RrfCombine(vector, bm25) ==
    LET sorted == SortByScore(AddList(AddList(<<>>, vector), bm25))
    IN  [k \in 1..Len(sorted) |-> sorted[k].chunk]

\* The orders rerankChunks may return the candidates in (every order is the
\* descending order of some scores).
Reorderings(list) ==
    {[k \in 1..Len(list) |-> list[p[k]]] :
        p \in {q \in [1..Len(list) -> 1..Len(list)] :
                  \A a \in 1..Len(list), b \in 1..Len(list) : a # b => q[a] # q[b]}}

\* The chunks, vectors, lexical rows and fingerprints of a store in which
\* lesson a has na chunks and lesson b has nb.
IngestedChunks(na, nb) ==
    {[id |-> k, lesson_name |-> "a", chunk_index |-> k - 1] : k \in 1..na}
    \cup {[id |-> na + k, lesson_name |-> "b", chunk_index |-> k - 1] : k \in 1..nb}

CtxIdle ==
    /\ ctxLessons = [defined |-> FALSE, names |-> <<>>]
    /\ ctxCombined = <<>>
    /\ ctxTopK = <<>>
    /\ ctxExpanded = <<>>
    /\ ctxPc = "idle"

\* Before the question a completed `--ingest` has filled the store.
StoreIngested ==
    /\ ctxPc = "idle"
    /\ \E na \in 0..MaxStored, nb \in 0..MaxStored :
          /\ na + nb <= MaxStored
          /\ chunksTable' = IngestedChunks(na, nb)
          /\ vecChunks' = 1..(na + nb)
          /\ chunksFts' = {[chunk_id |-> r.id, lesson_name |-> r.lesson_name] :
                              r \in IngestedChunks(na, nb)}
          /\ processedFiles' = {[filename |-> r.lesson_name, mtime |-> 1, size |-> 1] :
                                   r \in IngestedChunks(na, nb)}
    /\ userVersion' = SCHEMA_VERSION
    /\ UNCHANGED files
    /\ UNCHANGED ctxVars
    /\ UNCHANGED notCtxDb

\* answerQuestion: the two searches and rrfCombine.
ContextRetrieve ==
    /\ ctxPc = "idle"
    /\ \E option \in LessonFilters :
          /\ ctxLessons' = option
          /\ \E vector \in VectorMatchesOf(option), bm25 \in Bm25MatchesOf(option) :
                ctxCombined' = RrfCombine(vector, bm25)
    /\ ctxPc' = "combined"
    /\ UNCHANGED <<ctxTopK, ctxExpanded>>
    /\ UNCHANGED dbVars
    /\ UNCHANGED notCtxDb

\* if (combined.length === 0): "No matches found."
ContextNoMatches ==
    /\ ctxPc = "combined"
    /\ Len(ctxCombined) = 0
    /\ ctxLessons' = [defined |-> FALSE, names |-> <<>>]
    /\ ctxPc' = "idle"
    /\ UNCHANGED <<ctxCombined, ctxTopK, ctxExpanded>>
    /\ UNCHANGED dbVars
    /\ UNCHANGED notCtxDb

\* candidates = combined.slice(0, RERANK_LIMIT), rerankChunks, and
\* topK = reranked.slice(0, options.topK).
ContextSelect ==
    /\ ctxPc = "combined"
    /\ Len(ctxCombined) # 0
    /\ \E ranked \in Reorderings(SubSeq(ctxCombined, 1, Min(Len(ctxCombined), RERANK_LIMIT))),
          k \in 1..MaxContextTopK :
          ctxTopK' = SubSeq(ranked, 1, Min(Len(ranked), k))
    /\ ctxPc' = "selected"
    /\ UNCHANGED <<ctxLessons, ctxCombined, ctxExpanded>>
    /\ UNCHANGED dbVars
    /\ UNCHANGED notCtxDb

\* expanded = expandNeighbors(topK, NEIGHBOR_WINDOW).
ContextExpand ==
    /\ ctxPc = "selected"
    /\ \E result \in ExpandNeighbors(ctxTopK, NEIGHBOR_WINDOW) : ctxExpanded' = result
    /\ ctxPc' = "expanded"
    /\ UNCHANGED <<ctxLessons, ctxCombined, ctxTopK>>
    /\ UNCHANGED dbVars
    /\ UNCHANGED notCtxDb

\* buildPrompt(question, expanded), generateText, printSources: the end.
ContextGenerate ==
    /\ ctxPc = "expanded"
    /\ ctxLessons' = [defined |-> FALSE, names |-> <<>>]
    /\ ctxCombined' = <<>>
    /\ ctxTopK' = <<>>
    /\ ctxExpanded' = <<>>
    /\ ctxPc' = "idle"
    /\ UNCHANGED dbVars
    /\ UNCHANGED notCtxDb

----------------------------------------------------------------------------
\* Claims about the context of an answer.

\* The chunk is one of the selection.
Selected(chunk) == \E k \in 1..Len(ctxTopK) : ctxTopK[k] = chunk

\* The chunk is of the lesson of a selected chunk and next to it.
NextToSelected(chunk) ==
    \E k \in 1..Len(ctxTopK) :
        /\ ctxTopK[k].lessonName = chunk.lessonName
        /\ \/ chunk.chunkIndex = ctxTopK[k].chunkIndex + 1
           \/ chunk.chunkIndex = ctxTopK[k].chunkIndex - 1

\* C26: under a non-empty lesson filter every chunk of the context handed to
\* the generation, the neighbors included, is of a lesson of the filter, and
\* is either a chunk of the top-K selection or a chunk of the lesson of a
\* selected chunk whose chunk_index differs from that chunk's by exactly 1.
C26_ContextWithinFilter ==
    (ctxPc = "expanded" /\ ctxLessons.defined /\ Len(ctxLessons.names) > 0) =>
        \A p \in 1..Len(ctxExpanded) :
            /\ \E k \in 1..Len(ctxLessons.names) :
                  ctxLessons.names[k] = ctxExpanded[p].lessonName
            /\ Selected(ctxExpanded[p]) \/ NextToSelected(ctxExpanded[p])

\* C26 witness: the store holds chunks 0 and 1 of lesson a and chunk 0 of
\* lesson b, the filter is a, chunk 0 of a is selected: the context is chunks
\* 0 and 1 of a, the second one a neighbor outside the selection.
C26_Witness ==
    /\ ctxPc = "expanded"
    /\ ctxLessons = [defined |-> TRUE, names |-> <<"a">>]
    /\ chunksTable = IngestedChunks(2, 1)
    /\ ctxTopK = <<[id |-> 1, lessonName |-> "a", chunkIndex |-> 0]>>
    /\ ctxExpanded = <<[id |-> 1, lessonName |-> "a", chunkIndex |-> 0],
                       [id |-> 2, lessonName |-> "a", chunkIndex |-> 1]>>

----------------------------------------------------------------------------
\* Specifications: one per component; the other components stay idle.

Idle == AggIdle /\ RrfIdle /\ RerankIdle /\ IngestIdle /\ ExpandIdle /\ SuggestIdle /\ CliIdle /\ VecIdle /\ ParseIdle /\ NormIdle /\ ChunkIdle /\ SchemaIdle /\ CtxIdle

\* The state of the transcripts directory and of an empty database when a
\* component other than the ingestion is examined.
QuietStore == files = [lesson \in Lessons |-> [mtime |-> 1, content |-> "empty"]]

AggNext == AggCall \/ AggStep \/ AggReturn

AggInit == Idle /\ QuietStore

SpecAgg == AggInit /\ [][AggNext]_vars

RrfNext == RrfCall \/ RrfAddVector \/ RrfAddBm25 \/ RrfReturn

RrfInit == Idle /\ QuietStore

SpecRrf == RrfInit /\ [][RrfNext]_vars

RerankNext == RerankEmpty \/ RerankCall \/ RerankRejected \/ RerankResolved

RerankInit == Idle /\ QuietStore

SpecRerank == RerankInit /\ [][RerankNext]_vars

IngestNext ==
    \/ EditFile \/ StartRun \/ InitDb \/ StatFile \/ SkipUnchanged \/ DecideWrite
    \/ DeleteVec \/ DeleteChunks \/ DeleteFts \/ DeleteProcessed
    \/ ParseNothing \/ ParseAndEmbed
    \/ InsertChunkRow \/ InsertFtsRow \/ InsertEmbedding \/ InsertEmbeddingThrows
    \/ RecordProcessed \/ FinishRun \/ KillRun

IngestInit == Idle

SpecIngest == IngestInit /\ [][IngestNext]_vars

\* The ingestion between two questions.
ExpandIngest == expandPc = "idle" /\ IngestNext

SuggestNext == SuggestCall \/ SuggestReturn

SuggestInit == Idle /\ QuietStore

SpecSuggest == SuggestInit /\ [][SuggestNext]_vars

CliNext ==
    \/ CliStart \/ CliHelp \/ CliListLessons \/ CliNoApiKey \/ CliIngest \/ CliNoIngest
    \/ CliNoAsk \/ CliAsk \/ CliNoLessons \/ CliUnknownLessons \/ CliLessonsKnown
    \/ AnswerEmbed \/ AnswerVector \/ AnswerBm25 \/ AnswerNoMatches \/ AnswerRerank
    \/ AnswerTopK \/ AnswerGenerate

CliInit == Idle /\ QuietStore

SpecCli == CliInit /\ [][CliNext]_vars

VecNext ==
    QueryVectorThrows \/ QueryVectorFiltered \/ QueryVectorPlain \/ QueryVectorReturn

VecInit == Idle /\ QuietStore

SpecVec == VecInit /\ [][VecNext]_vars

ParseNext == ParseCall \/ ParseReturn

ParseInit == Idle /\ QuietStore

SpecParse == ParseInit /\ [][ParseNext]_vars

NormNext == NormCall \/ NormReturn

NormInit == Idle /\ QuietStore

SpecNorm == NormInit /\ [][NormNext]_vars

ChunkNext == FileParse \/ FileNoEntries \/ FileAggregate \/ FileDone

ChunkInit == Idle /\ QuietStore

SpecChunk == ChunkInit /\ [][ChunkNext]_vars

SchemaNext ==
    \/ StoreLeft \/ ProcessStart \/ InitDbFirst \/ InitDbThrows \/ InitDbAgain
    \/ ProcessWrites \/ ProcessExit

SchemaInit == Idle /\ QuietStore

SpecSchema == SchemaInit /\ [][SchemaNext]_vars

CtxNext ==
    \/ StoreIngested \/ ContextRetrieve \/ ContextNoMatches \/ ContextSelect
    \/ ContextExpand \/ ContextGenerate

CtxInit == Idle /\ QuietStore

SpecCtx == CtxInit /\ [][CtxNext]_vars

ExpandNext == ExpandIngest \/ ExpandCall \/ ExpandReturn

ExpandInit == Idle

SpecExpand == ExpandInit /\ [][ExpandNext]_vars

====
